---------------------------- MODULE Spec2Model ----------------------------
(***************************************************************************)
(* Dagitoru: Slack event ingestion, job dispatch, Cloud Run worker and     *)
(* callback reconciler.  The module models                                 *)
(*   - the idempotency store  (app/lib/kv-store.ts and its Vercel KV       *)
(*     variant with in-process fallback),                                  *)
(*   - the Slack event handlers (app/api/slack/.../route.ts),              *)
(*   - the worker (cloudrun/src/process.js and its variants),              *)
(*   - the callback endpoint (app/api/cloudrun/callback/route.ts).         *)
(* Time is in milliseconds, as Date.now() gives it.                        *)
(***************************************************************************)
EXTENDS Integers, Sequences, FiniteSets, TLC

VARIABLES
  now,            \* Date.now()
  mayFail,        \* how many more invocation steps may meet a failing external
                  \* service (KV, GCS, Firestore, Pub/Sub, Slack, Speech, ...)
  kvConfigured,   \* TRUE: the build whose EventProcessor talks to Vercel KV;
                  \* FALSE: the build of app/lib/kv-store.ts (memory only)
  kvStore,        \* Vercel KV: key -> [value, expireAt]
  memoryStore,    \* the module-level Map: key -> Date.now() at insertion
  marks,          \* history: <<store, key>> -> time of the last "not seen" answer
  lastCall,       \* history: the last isProcessedOrMark / isMessageSentOrMark call
  req,            \* the deliveries the Slack event endpoints are handling
  processedEvents,\* the module-level Map of app/api/slack/events/route.ts
  bucket,         \* Cloud Storage: the set of object paths
  jobs,           \* Firestore collection "jobs": jobId -> JobRecord
  published,      \* Pub/Sub: the messages published, in order
  slackPosts,     \* chat.postMessage calls that reached Slack, in order
  nextJob,        \* how many job ids uuidv4() has handed out
  callbackUrl,    \* whether the worker's CALLBACK_URL is set
  att,            \* the worker's handlings of queue messages and HTTP requests
  acked,          \* Pub/Sub: the published messages acknowledged so far
  callbacks,      \* the POSTs the worker made to CALLBACK_URL, in order
  transcripts,    \* Cloud Storage: content of the transcript.json objects, by URL
  cb,             \* the invocations of the callback endpoint
  notionPages     \* Notion: the pages created in the database, in order

storeVars == <<kvStore, memoryStore, marks, lastCall>>

workerVars == <<callbackUrl, att, acked, callbacks, transcripts>>

callbackVars == <<cb, notionPages>>

ingestVars == <<req, processedEvents, bucket, jobs, published, slackPosts, nextJob>>

vars == <<now, mayFail, kvConfigured, kvStore, memoryStore, marks, lastCall,
          req, processedEvents, bucket, jobs, published, slackPosts, nextJob,
          callbackUrl, att, acked, callbacks, transcripts, cb, notionPages>>

None == "none"

NoTime == 0 - 1   \* "no such instant"

(***************************************************************************)
(* Program constants                                                       *)
(***************************************************************************)
TTL == 86400                  \* seconds: 60 * 60 * 24
MEMORY_EXPIRY_MS == 3600000   \* one hour

(***************************************************************************)
(* Bounds                                                                  *)
(***************************************************************************)
MaxStoreTicks == 26           \* hours the clock of SpecStore may advance

MaxFaults == 1                \* invocation steps that may meet a failing service

HourMs == MEMORY_EXPIRY_MS    \* the clock advances in steps of one hour

\* The event hashes SpecStore calls the store with: two where only the
\* in-process map is in play, one where the durable store (whose entries
\* live 24 times longer) is in play too.
StoreHashes(configured) == IF configured THEN {"h1"} ELSE {"h1", "h2"}

(***************************************************************************)
(* JavaScript Map                                                          *)
(***************************************************************************)
EmptyMap == <<>>

MapHas(m, k) == k \in DOMAIN m

MapSet(m, k, v) == [x \in (DOMAIN m) \cup {k} |-> IF x = k THEN v ELSE m[x]]

MapDelete(m, ks) == [x \in (DOMAIN m) \ ks |-> m[x]]

(***************************************************************************)
(* Vercel KV (Redis): SET key value EX ttl, EXISTS key.  A key is gone     *)
(* once ttl seconds have passed since it was set.                          *)
(***************************************************************************)
KvExistsNever(kv, key, t) == FALSE

KvExists(kv, key, t) == MapHas(kv, key) /\ t < kv[key].expireAt

KvSet(kv, key, value, ex, t) ==
  MapSet(kv, key, [value |-> value, expireAt |-> t + ex * 1000])

KvExpire(kv, t) == MapDelete(kv, {k \in DOMAIN kv : kv[k].expireAt <= t})

(***************************************************************************)
(* EventProcessor.cleanupMemoryStore                                       *)
(***************************************************************************)
cleanupMemoryStoreNever(m, t) == m

cleanupMemoryStore(m, t) ==
  MapDelete(m, {k \in DOMAIN m : t - m[k] > MEMORY_EXPIRY_MS})

(***************************************************************************)
(* The in-memory part of isProcessedOrMark / isMessageSentOrMark:          *)
(* cleanup, has, set.  No await separates the three, so the block is       *)
(* atomic within one Node process.                                         *)
(***************************************************************************)
MemoryCheckNoMark(mem, key, t) ==
  LET m1 == cleanupMemoryStore(mem, t) IN
  [ret |-> MapHas(m1, key), mem |-> m1]

MemoryCheckOrMark(mem, key, t) ==
  LET m1 == cleanupMemoryStore(mem, t) IN
  IF MapHas(m1, key)
    THEN [ret |-> TRUE,  mem |-> m1]
    ELSE [ret |-> FALSE, mem |-> MapSet(m1, key, t)]

(***************************************************************************)
(* What a call may meet at the durable store.                              *)
(*   "null"          initKvClient() returned null (always so in the        *)
(*                   memory-only build)                                    *)
(*   "ok"            exists and set both answer                            *)
(*   "exists_throws" kv.exists rejects                                     *)
(*   "set_throws"    kv.exists answers, kv.set rejects                     *)
(***************************************************************************)
KvOutcomes(configured) ==
  IF configured THEN {"ok", "null", "exists_throws", "set_throws"} ELSE {"null"}

(***************************************************************************)
(* EventProcessor.isProcessedOrMark / isMessageSentOrMark run to           *)
(* completion with no other call interleaved (sequential calls).           *)
(* key is the prefixed key ("event:" \o hash, "message:" \o messageKey).   *)
(***************************************************************************)
SeenOrMark(key, out, kv, mem, t) ==
  IF out \in {"ok", "set_throws"} /\ KvExists(kv, key, t)
    THEN [ret |-> TRUE, kv |-> kv, mem |-> mem, path |-> "kv"]
  ELSE IF out = "ok"
    THEN [ret |-> FALSE, kv |-> KvSet(kv, key, t, TTL, t), mem |-> mem, path |-> "kv"]
  ELSE LET r == MemoryCheckOrMark(mem, key, t) IN
       [ret |-> r.ret, kv |-> kv, mem |-> r.mem, path |-> "memory"]

isProcessedOrMark(eventHash, out, kv, mem, t) ==
  SeenOrMark("event:" \o eventHash, out, kv, mem, t)

isMessageSentOrMark(messageKey, out, kv, mem, t) ==
  SeenOrMark("message:" \o messageKey, out, kv, mem, t)

(***************************************************************************)
(* History of the answers, kept beside the stores and never read by them.  *)
(***************************************************************************)
NoCall == [key |-> None, path |-> None, ret |-> FALSE, at |-> 0, prev |-> NoTime]

MarkOf(mk, path, key) ==
  IF <<path, key>> \in DOMAIN mk THEN mk[<<path, key>>] ELSE NoTime

RecordCall(key, r, t) ==
  /\ lastCall' = [key |-> key, path |-> r.path, ret |-> r.ret, at |-> t,
                  prev |-> MarkOf(marks, r.path, key)]
  /\ marks' = IF r.ret THEN marks ELSE MapSet(marks, <<r.path, key>>, t)

(***************************************************************************)
(* Slack envelopes and requests                                            *)
(***************************************************************************)
MAX_FILE_SIZE == 1073741824   \* CONFIG.MAX_FILE_SIZE, 1024 * 1024 * 1024

MAX_AGE_S == 600              \* 60 * 10: requests older than 10 minutes are refused

SLACK_SIGNING_SECRET == "signing-secret"

SlackEvent(type, files) ==
  [type |-> type, channel |-> "C1", ts |-> "100.1", thread_ts |-> None,
   text |-> "minutes", user |-> "U1", files |-> files]

Envelope(type, eid, ev) ==
  [type |-> type, event_id |-> eid, challenge |-> "challenge-1", event |-> ev,
   body |-> "{" \o type \o "," \o eid \o "}"]

\* one 2,000,000-byte video/mp4 attachment
F1 == [id |-> "F1", name |-> "meeting.mp4", mimetype |-> "video/mp4",
       size |-> 2000000, url_private |-> TRUE]

E1 == Envelope("event_callback", "E1", SlackEvent("message", <<F1>>))

Hmac(secret, basestring) == "hmac<" \o secret \o ">(" \o basestring \o ")"

\* the x-slack-signature a sender holding `secret` computes
SignatureBy(secret, timestamp, body) ==
  "v0=" \o Hmac(secret, "v0:" \o ToString(timestamp) \o ":" \o body)

(***************************************************************************)
(* verifySlackSignature: timingSafeEqual throws on buffers of different    *)
(* length and the catch turns that into false.                             *)
(***************************************************************************)
verifySlackSignatureAlways(body, signature, timestamp) == TRUE

verifySlackSignature(body, signature, timestamp) ==
  SignatureBy(SLACK_SIGNING_SECRET, timestamp, body) = signature

generateEventHash(event_id, channel, ts) ==
  "sha256(" \o event_id \o "_" \o channel \o "_" \o ts \o ")"

(***************************************************************************)
(* Responses                                                               *)
(***************************************************************************)
Response(code, status) == [code |-> code, status |-> status, jobId |-> None]

NoResponse == Response(0, None)

(***************************************************************************)
(* The head of both event handlers, up to the idempotency check:           *)
(* url_verification, timestamp, signature, event_callback with ids.        *)
(* Gives the response, or NoResponse when the handler goes on.             *)
(***************************************************************************)
\* the body { challenge: jsonBody.challenge }, status 200
ChallengeFixed(env) == [code |-> 200, challenge |-> "challenge-1"]

ChallengeResponse(env) == [code |-> 200, challenge |-> env.challenge]

ValidateRequest(r, t) ==
  IF r.env.type = "url_verification" THEN ChallengeResponse(r.env)
  ELSE IF r.hdrTs = NoTime \/ r.hdrTs < (t \div 1000) - MAX_AGE_S
    THEN Response(401, "Invalid timestamp")
  ELSE IF r.hdrSig = "" \/ ~verifySlackSignature(r.env.body, r.hdrSig, r.hdrTs)
    THEN Response(401, "Invalid signature")
  ELSE IF r.env.type # "event_callback" \/ r.env.event_id = "" THEN Response(200, "ok")
  ELSE NoResponse

(***************************************************************************)
(* Helpers of app/lib                                                      *)
(***************************************************************************)
OkOrFail == IF mayFail > 0 THEN {TRUE, FALSE} ELSE {TRUE}

\* a step that met a failure uses up one of the failures the run may see
Spend(failed) == mayFail' = IF failed THEN mayFail - 1 ELSE mayFail

uuidv4(n) == "00000000-0000-4000-8000-00000000000" \o ToString(n)

\* yyyyMMdd_HHmm of the local time: one value per minute
FormattedDate(t) == "min" \o ToString(t \div 60000)

getGCSPath(jobId, filename, t) ==
  "meetings/" \o FormattedDate(t) \o "/" \o jobId \o "/" \o filename

Substring(text, from, to) ==
  SubSeq(text, from + 1, IF to < Len(text) THEN to ELSE Len(text))

messageKey(channel, text, thread_ts) ==
  channel \o "_" \o (IF thread_ts = None THEN "main" ELSE thread_ts) \o "_"
          \o Substring(text, 0, 100)

\* a sendSlackMessage that keeps the record of the key only when the post
\* went through
sendSlackMessageMarkAfter(channel, text, thread_ts, out, postOk, kv, mem, posts, t) ==
  LET r == isMessageSentOrMark(messageKey(channel, text, thread_ts), out, kv, mem, t) IN
  [ret   |-> r.ret \/ postOk,
   kv    |-> IF r.ret \/ postOk THEN r.kv ELSE kv,
   mem   |-> IF r.ret \/ postOk THEN r.mem ELSE mem,
   posts |-> IF ~r.ret /\ postOk
               THEN Append(posts, [channel |-> channel, text |-> text,
                                   thread_ts |-> thread_ts])
               ELSE posts]

(***************************************************************************)
(* sendSlackMessage: skip when the key was recorded, else post; a failed   *)
(* post is caught and gives false.                                         *)
(***************************************************************************)
sendSlackMessage(channel, text, thread_ts, out, postOk, kv, mem, posts, t) ==
  LET r == isMessageSentOrMark(messageKey(channel, text, thread_ts), out, kv, mem, t) IN
  [ret   |-> r.ret \/ postOk,
   kv    |-> r.kv,
   mem   |-> r.mem,
   posts |-> IF ~r.ret /\ postOk
               THEN Append(posts, [channel |-> channel, text |-> text,
                                   thread_ts |-> thread_ts])
               ELSE posts]

\* event.thread_ts || event.ts
ThreadOf(ev) == IF ev.thread_ts = None THEN ev.ts ELSE ev.thread_ts

(***************************************************************************)
(* Deliveries                                                              *)
(***************************************************************************)
NumDeliveries == 2

Deliveries == 1 .. NumDeliveries

\* pc: idle -> check -> (mark ->) process -> done.  The fields from `seen`
\* on are history: the answer of the idempotency check, the store that gave
\* it (path), when it was given, the time the key had last been recorded in
\* that store (prevMark), the deliveries that had recorded the key before
\* this one's check began (after) and whether this one recorded it (marked).
IdleRequest ==
  [pc |-> "idle", handler |-> None, env |-> E1, hdrTs |-> NoTime, hdrSig |-> "",
   hdrHash |-> "", seen |-> FALSE, path |-> None, checkedAt |-> NoTime,
   prevMark |-> NoTime, after |-> {}, marked |-> FALSE, jobId |-> None,
   resp |-> NoResponse]

InitIngestVars ==
  /\ req = [d \in Deliveries |-> IdleRequest]
  /\ processedEvents = EmptyMap
  /\ bucket = {}
  /\ jobs = EmptyMap
  /\ published = <<>>
  /\ slackPosts = <<>>
  /\ nextJob = 0

(***************************************************************************)
(* Worker attempts: one per message handed to the worker by the            *)
(* subscription, or per request to one of its HTTP endpoints.              *)
(***************************************************************************)
NumAttempts == 2

Attempts == 1 .. NumAttempts

NoJob == [id |-> None, fileIds |-> <<>>, channel |-> None, ts |-> None,
          thread_ts |-> None]

\* pc: idle -> fetch -> transform -> analyze -> persist -> report -> done.
\* trace is history: the stages entered, the callbacks attempted, how
\* processJob settled and the acknowledgement, in the order they happened.
IdleAttempt ==
  [pc |-> "idle", entry |-> None, msg |-> 0, job |-> NoJob, trace |-> <<>>,
   error |-> None, failedAt |-> None, prefix |-> None, media |-> None,
   result |-> None, code |-> 0]

NoMetadata == [channel |-> None, ts |-> None, thread_ts |-> None]

\* the JSON body of a callback; None stands for an absent (or null) field
CloudRunCallback(jobId, status, transcriptUrl, error, metadata) ==
  [jobId |-> jobId, status |-> status, transcriptUrl |-> transcriptUrl,
   error |-> error, metadata |-> metadata]

InitWorkerVars ==
  /\ callbackUrl = TRUE
  /\ att = [a \in Attempts |-> IdleAttempt]
  /\ acked = {}
  /\ callbacks = <<>>
  /\ transcripts = EmptyMap

(***************************************************************************)
(* Invocations of the callback endpoint                                    *)
(***************************************************************************)
NumInvocations == 2

Invocations == 1 .. NumInvocations

\* pc: idle -> fetch -> summarize -> notion -> notify -> done.  steps is
\* history: the pipeline steps this invocation performed, in order; notified:
\* it called sendSlackMessage; posted: its completion notification reached
\* the conversation.
IdleInvocation ==
  [pc |-> "idle", callback |-> CloudRunCallback(None, None, None, None, NoMetadata),
   from |-> 0, steps |-> <<>>, title |-> None, page |-> 0, notified |-> FALSE,
   posted |-> FALSE,
   resp |-> NoResponse]

InitCallbackVars ==
  /\ cb = [c \in Invocations |-> IdleInvocation]
  /\ notionPages = <<>>

(***************************************************************************)
(* SpecStore: one EventProcessor, called sequentially, while time passes.  *)
(***************************************************************************)
InitStoreVars ==
  /\ now = 0
  /\ kvConfigured \in BOOLEAN
  /\ kvStore = EmptyMap
  /\ memoryStore = EmptyMap
  /\ marks = EmptyMap
  /\ lastCall = NoCall

Tick(maxTicks) ==
  /\ now < maxTicks * HourMs
  /\ now' = now + HourMs
  /\ kvStore' = KvExpire(kvStore, now')
  /\ lastCall' = NoCall
  /\ UNCHANGED <<mayFail, kvConfigured, memoryStore, marks>>
  /\ UNCHANGED ingestVars
  /\ UNCHANGED workerVars
  /\ UNCHANGED callbackVars

CallIsProcessedOrMark ==
  \E h \in StoreHashes(kvConfigured), out \in KvOutcomes(kvConfigured) :
    LET r == isProcessedOrMark(h, out, kvStore, memoryStore, now) IN
    /\ kvStore' = r.kv
    /\ memoryStore' = r.mem
    /\ RecordCall("event:" \o h, r, now)
    /\ UNCHANGED <<now, mayFail, kvConfigured>>
    /\ UNCHANGED ingestVars
    /\ UNCHANGED workerVars
    /\ UNCHANGED callbackVars

InitStore ==
  /\ InitStoreVars /\ mayFail = MaxFaults
  /\ InitIngestVars /\ InitWorkerVars /\ InitCallbackVars

TickStore == Tick(MaxStoreTicks)

NextStore == TickStore \/ CallIsProcessedOrMark

SpecStore == InitStore /\ [][NextStore]_vars

(***************************************************************************)
(* The retention window of each store.                                     *)
(***************************************************************************)
InWindow(path, mark, t) ==
  IF path = "kv" THEN t < mark + TTL * 1000
  ELSE t - mark <= MEMORY_EXPIRY_MS

StoreHolds(path, key) ==
  IF path = "kv" THEN KvExists(kvStore, key, now) ELSE MapHas(memoryStore, key)

\* C1: a call to isProcessedOrMark(k) answers "seen" exactly when an earlier
\* call on the same store answered "not seen" for k and that entry has not
\* expired; a "not seen" answer (the first call, and the first call after
\* expiry) leaves k recorded in the store.
C1_SeenExactlyWithinWindow ==
  lastCall.key # None =>
    /\ lastCall.ret =
         (lastCall.prev # NoTime /\ InWindow(lastCall.path, lastCall.prev, lastCall.at))
    /\ (lastCall.at = now => StoreHolds(lastCall.path, lastCall.key))

\* C1 witness: a call that found its key expired (an earlier mark exists, the
\* window has passed) and answered "not seen" again.
C1_Witness ==
  /\ lastCall.key # None
  /\ lastCall.prev # NoTime
  /\ ~lastCall.ret
  /\ lastCall.path = "memory"

C1_WitnessKv ==
  /\ lastCall.key # None
  /\ lastCall.prev # NoTime
  /\ ~lastCall.ret
  /\ lastCall.path = "kv"

(***************************************************************************)
(* A request arrives at an event endpoint; the head of POST runs.          *)
(***************************************************************************)
Fingerprint(env) == generateEventHash(env.event_id, env.event.channel, env.event.ts)

\* the x-slack-request-timestamp and x-slack-signature headers of a request
\* sent at time t, by the kind of sender
HeaderOf(kind, env, t) ==
  LET fresh == t \div 1000
      old   == fresh - MAX_AGE_S - 1 IN
  CASE kind = "valid"        -> [ts  |-> fresh,
                                 sig |-> SignatureBy(SLACK_SIGNING_SECRET, fresh, env.body)]
    [] kind = "stale"        -> [ts  |-> old,
                                 sig |-> SignatureBy(SLACK_SIGNING_SECRET, old, env.body)]
    [] kind = "no_timestamp" -> [ts  |-> NoTime,
                                 sig |-> SignatureBy(SLACK_SIGNING_SECRET, fresh, env.body)]
    [] kind = "forged"       -> [ts  |-> fresh,
                                 sig |-> SignatureBy("guessed-secret", fresh, env.body)]
    [] kind = "no_signature" -> [ts |-> fresh, sig |-> ""]

\* x-processed-event-hash is read by the events handler only
ProcessedHeaders(h, env) == IF h = "events" THEN {"", Fingerprint(env)} ELSE {""}

otherVars == <<now, kvConfigured, lastCall, callbackUrl, att, acked, callbacks,
               transcripts, cb, notionPages>>

Receive(d, handlers, envs, kinds) ==
  /\ req[d].pc = "idle"
  /\ \A e \in Deliveries : e < d => req[e].pc # "idle"
  /\ \E h \in handlers, env \in envs, kind \in kinds :
       \E hdrHash \in ProcessedHeaders(h, env) :
         /\ \A e \in Deliveries : req[e].pc # "idle" => req[e].handler = h
         /\ LET hd == HeaderOf(kind, env, now)
                r  == [IdleRequest EXCEPT !.handler = h, !.env = env, !.hdrTs = hd.ts,
                                          !.hdrSig = hd.sig, !.hdrHash = hdrHash]
                v  == ValidateRequest(r, now) IN
            req' = [req EXCEPT ![d] =
                      IF v = NoResponse THEN [r EXCEPT !.pc = "check"]
                                        ELSE [r EXCEPT !.pc = "done", !.resp = v]]
  /\ UNCHANGED <<kvStore, memoryStore, marks, processedEvents, bucket, jobs,
                 published, slackPosts, nextJob, mayFail>>
  /\ UNCHANGED otherVars

(***************************************************************************)
(* combined-handler: eventProcessor.isProcessedOrMark(eventHash), step by  *)
(* step.  kv.exists and kv.set are two awaited calls; the in-process part  *)
(* (cleanup, has, set) runs without a suspension point.                    *)
(***************************************************************************)
SkippedAsProcessed == Response(200, "processed")

Skipped == Response(200, "duplicate_event_skipped")

\* the deliveries that have recorded this fingerprint so far
Recorded(fp) == {e \in Deliveries : req[e].marked /\ Fingerprint(req[e].env) = fp}

\* whether the durable store answers a call: never in the memory-only build
KvAnswers == IF kvConfigured THEN OkOrFail ELSE {FALSE}

\* the in-process check-or-mark as the step of delivery d
MemoryStep(d, key) ==
  LET r == MemoryCheckOrMark(memoryStore, key, now) IN
  /\ memoryStore' = r.mem
  /\ marks' = IF r.ret THEN marks ELSE MapSet(marks, <<"memory", key>>, now)
  /\ req' = [req EXCEPT ![d].seen = r.ret, ![d].path = "memory",
                        ![d].checkedAt = now,
                        ![d].prevMark = MarkOf(marks, "memory", key),
                        ![d].after = Recorded(Fingerprint(req[d].env)),
                        ![d].marked = ~r.ret,
                        ![d].pc = IF r.ret THEN "done" ELSE "process",
                        ![d].resp = IF r.ret THEN Skipped ELSE NoResponse]
  /\ UNCHANGED kvStore

CombinedCheck(d) ==
  /\ req[d].pc = "check"
  /\ req[d].handler = "combined"
  /\ LET key == "event:" \o Fingerprint(req[d].env) IN
     \E existsOk \in KvAnswers :
       IF existsOk
         THEN /\ req' = [req EXCEPT ![d].seen = KvExists(kvStore, key, now),
                                    ![d].path = "kv",
                                    ![d].checkedAt = now,
                                    ![d].prevMark = MarkOf(marks, "kv", key),
                                    ![d].after = Recorded(Fingerprint(req[d].env)),
                                    ![d].pc = IF KvExists(kvStore, key, now)
                                                THEN "done" ELSE "mark",
                                    ![d].resp = IF KvExists(kvStore, key, now)
                                                  THEN Skipped ELSE NoResponse]
              /\ UNCHANGED <<kvStore, memoryStore, marks, mayFail>>
         ELSE MemoryStep(d, key) /\ Spend(kvConfigured)
  /\ UNCHANGED <<processedEvents, bucket, jobs, published, slackPosts, nextJob>>
  /\ UNCHANGED otherVars

CombinedMark(d) ==
  /\ req[d].pc = "mark"
  /\ LET key == "event:" \o Fingerprint(req[d].env) IN
     \E setOk \in OkOrFail :
       IF setOk
         THEN /\ kvStore' = KvSet(kvStore, key, now, TTL, now)
              /\ marks' = MapSet(marks, <<"kv", key>>, now)
              /\ req' = [req EXCEPT ![d].marked = TRUE, ![d].pc = "process"]
              /\ UNCHANGED <<memoryStore, mayFail>>
         ELSE MemoryStep(d, key) /\ Spend(TRUE)
  /\ UNCHANGED <<processedEvents, bucket, jobs, published, slackPosts, nextJob>>
  /\ UNCHANGED otherVars

(***************************************************************************)
(* Staging the files of an event.  The texts stand for the Japanese        *)
(* originals and have their length in UTF-16 units.                        *)
(***************************************************************************)
NoUrlError == "file has no priv URL"

TooLargeError == "file too large (>1GB)"

UndefinedUrlError == "Cannot read properties of undefined (reading 'substring')"

UploadError == "Request failed with status code 500"

AllFailedMessage == "[x] processing failed: no file was staged"

\* guarded: the handler tests url_private and the size before uploading
UploadResult(file, jobId, guarded, upOk, t) ==
  LET fail(e) == [success |-> FALSE, file |-> file, gcsPath |-> None, error |-> e] IN
  IF guarded /\ ~file.url_private THEN fail(NoUrlError)
  ELSE IF guarded /\ file.size > MAX_FILE_SIZE THEN fail(TooLargeError)
  ELSE IF ~file.url_private THEN fail(UndefinedUrlError)
  ELSE IF upOk THEN [success |-> TRUE, file |-> file,
                     gcsPath |-> getGCSPath(jobId, file.name, t), error |-> None]
  ELSE fail(UploadError)

UploadResults(files, jobId, guarded, up, t) ==
  [i \in 1 .. Len(files) |-> UploadResult(files[i], jobId, guarded, up[i], t)]

\* every result counted as an upload that went through
SuccessfulAll(results) == results

Successful(results) == SelectSeq(results, LAMBDA r : r.success)

Failed(results) == SelectSeq(results, LAMBDA r : ~r.success)

GcsPathsOf(results) ==
  [i \in 1 .. Len(Successful(results)) |-> Successful(results)[i].gcsPath]

FileNamesOf(results) ==
  [i \in 1 .. Len(Successful(results)) |-> Successful(results)[i].file.name]

FileIdsOf(results) ==
  [i \in 1 .. Len(Successful(results)) |-> Successful(results)[i].file.id]

RECURSIVE Join(_, _)
Join(lines, sep) ==
  IF lines = <<>> THEN ""
  ELSE IF Len(lines) = 1 THEN lines[1]
  ELSE lines[1] \o sep \o Join(Tail(lines), sep)

StatusMessage(jobId, results) ==
  LET ok == Successful(results)
      ko == Failed(results) IN
  "[job] created   (ID: " \o jobId \o ")\n"
    \o (IF Len(ok) > 0 THEN "[ok] files: " \o ToString(Len(ok)) \o "f\n" ELSE "")
    \o (IF Len(ko) > 0
          THEN "[x] not staged: " \o ToString(Len(ko)) \o "f\n"
               \o Join([i \in 1 .. Len(ko) |->
                          "- " \o ko[i].file.name \o ": " \o ko[i].error], "\n")
               \o "\n"
          ELSE "")

\* what a sendSlackMessage call may meet at the durable store
MessageStoreOutcomes ==
  IF ~kvConfigured THEN {"null"}
  ELSE IF mayFail > 0 THEN {"ok", "exists_throws", "set_throws"} ELSE {"ok"}

JobRecordCompleted(jobId, results, event, t) ==
  [jobId |-> jobId, status |-> "completed", createdAt |-> t, updatedAt |-> t,
   gcsPaths |-> GcsPathsOf(results), fileNames |-> FileNamesOf(results),
   slackEvent |-> event]

\* the only write to the collection "jobs" in the source
JobRecord(jobId, results, event, t) ==
  [jobId |-> jobId, status |-> "pending", createdAt |-> t, updatedAt |-> t,
   gcsPaths |-> GcsPathsOf(results), fileNames |-> FileNamesOf(results),
   slackEvent |-> event]

MessageDataUnnamed(jobId, results, event) ==
  [jobId |-> None, gcsPaths |-> GcsPathsOf(results),
   fileNames |-> FileNamesOf(results),
   slackEvent |-> [text |-> event.text, channel |-> event.channel, ts |-> event.ts,
                   thread_ts |-> event.thread_ts, user |-> event.user]]

MessageData(jobId, results, event) ==
  [jobId |-> jobId, gcsPaths |-> GcsPathsOf(results),
   fileNames |-> FileNamesOf(results),
   slackEvent |-> [text |-> event.text, channel |-> event.channel, ts |-> event.ts,
                   thread_ts |-> event.thread_ts, user |-> event.user]]

Processed == Response(200, "processed")

JobCreated(jobId) ==
  [Response(200, "processing_job_created_and_published") EXCEPT !.jobId = jobId]

(***************************************************************************)
(* combined-handler after a "not seen" answer: uploads, Job Record,        *)
(* publish, acceptance notification, response.                             *)
(***************************************************************************)
\* `ids` are the values uuidv4() may return in this run
CombinedProcessWith(d, ids) ==
  /\ req[d].pc = "process"
  /\ req[d].handler = "combined"
  /\ LET event == req[d].env.event IN
     IF event.type = "message" /\ Len(event.files) > 0
       THEN \E up \in [1 .. Len(event.files) -> OkOrFail],
               dbOk \in OkOrFail, pubOk \in OkOrFail, postOk \in OkOrFail,
               out \in MessageStoreOutcomes, jobId \in ids :
              LET results == UploadResults(event.files, jobId, TRUE, up, now)
                  created == Len(Successful(results)) > 0
                  text    == IF created THEN StatusMessage(jobId, results)
                                        ELSE AllFailedMessage
                  s == sendSlackMessage(event.channel, text, ThreadOf(event), out,
                                        postOk, kvStore, memoryStore, slackPosts, now)
              IN /\ ~created => dbOk /\ pubOk
                 /\ Spend(~(dbOk /\ pubOk /\ postOk /\ out \in {"ok", "null"}
                            /\ \A i \in DOMAIN up : up[i]))
                 /\ nextJob' = nextJob + 1
                 /\ bucket' = bucket \cup
                      {GcsPathsOf(results)[i] : i \in 1 .. Len(GcsPathsOf(results))}
                 /\ jobs' = IF created /\ dbOk
                              THEN MapSet(jobs, jobId, JobRecord(jobId, results, event, now))
                              ELSE jobs
                 /\ published' = IF created /\ pubOk
                                   THEN Append(published, MessageData(jobId, results, event))
                                   ELSE published
                 /\ kvStore' = s.kv
                 /\ memoryStore' = s.mem
                 /\ slackPosts' = s.posts
                 /\ req' = [req EXCEPT ![d].jobId = jobId, ![d].pc = "done",
                                       ![d].resp = IF created THEN JobCreated(jobId)
                                                              ELSE Processed]
       ELSE /\ req' = [req EXCEPT ![d].pc = "done", ![d].resp = Processed]
            /\ UNCHANGED <<kvStore, memoryStore, bucket, jobs, published,
                           slackPosts, nextJob, mayFail>>
  /\ UNCHANGED <<marks, processedEvents>>
  /\ UNCHANGED otherVars

\* a fresh id in every run
CombinedProcess(d) == CombinedProcessWith(d, {uuidv4(nextJob + 1)})

(***************************************************************************)
(* events handler: its own module-level cache, consulted and written       *)
(* without a suspension point; the x-processed-event-hash request header   *)
(* is taken as proof of an earlier handling.                               *)
(***************************************************************************)
EVENT_CACHE_EXPIRY_MS == 3600000

cleanupEventCacheAll(m, t) == EmptyMap

cleanupEventCache(m, t) ==
  MapDelete(m, {k \in DOMAIN m : t - m[k] > EVENT_CACHE_EXPIRY_MS})

EventsCheck(d) ==
  /\ req[d].pc = "check"
  /\ req[d].handler = "events"
  /\ LET eventHash == Fingerprint(req[d].env)
         cache     == cleanupEventCache(processedEvents, now)
         skip      == MapHas(cache, eventHash) \/ req[d].hdrHash = eventHash
     IN /\ processedEvents' = IF skip THEN cache ELSE MapSet(cache, eventHash, now)
        /\ marks' = IF skip THEN marks ELSE MapSet(marks, <<"events", eventHash>>, now)
        /\ req' = [req EXCEPT ![d].seen = skip, ![d].path = "events",
                              ![d].checkedAt = now,
                              ![d].prevMark = MarkOf(marks, "events", eventHash),
                              ![d].after = Recorded(eventHash),
                              ![d].marked = ~skip,
                              ![d].pc = IF skip THEN "done" ELSE "process",
                              ![d].resp = IF skip THEN Skipped ELSE NoResponse]
  /\ UNCHANGED <<kvStore, memoryStore, bucket, jobs, published, slackPosts, nextJob,
                 mayFail>>
  /\ UNCHANGED otherVars

ProcessingJob(jobId, results, event, t) ==
  [id |-> jobId, fileIds |-> FileIdsOf(results), text |-> event.text,
   channel |-> event.channel, ts |-> event.ts, thread_ts |-> event.thread_ts,
   user |-> event.user, status |-> "pending", createdAt |-> t, updatedAt |-> t]

\* uploads, acceptance notification, startCloudRunJob, response
EventsProcess(d) ==
  /\ req[d].pc = "process"
  /\ req[d].handler = "events"
  /\ LET event == req[d].env.event IN
     IF event.type = "message" /\ Len(event.files) > 0
       THEN \E up \in [1 .. Len(event.files) -> OkOrFail],
               pubOk \in OkOrFail, postOk \in OkOrFail,
               out \in MessageStoreOutcomes :
              LET jobId   == uuidv4(nextJob + 1)
                  results == UploadResults(event.files, jobId, FALSE, up, now)
                  created == Len(Successful(results)) > 0
                  text    == IF created THEN StatusMessage(jobId, results)
                                        ELSE AllFailedMessage
                  s == sendSlackMessage(event.channel, text, ThreadOf(event), out,
                                        postOk, kvStore, memoryStore, slackPosts, now)
              IN /\ ~created => pubOk
                 /\ Spend(~(pubOk /\ postOk /\ out \in {"ok", "null"}
                            /\ \A i \in DOMAIN up : up[i]))
                 /\ nextJob' = nextJob + 1
                 /\ bucket' = bucket \cup
                      {GcsPathsOf(results)[i] : i \in 1 .. Len(GcsPathsOf(results))}
                 /\ published' = IF created /\ pubOk
                                   THEN Append(published,
                                               ProcessingJob(jobId, results, event, now))
                                   ELSE published
                 /\ kvStore' = s.kv
                 /\ memoryStore' = s.mem
                 /\ slackPosts' = s.posts
                 /\ req' = [req EXCEPT ![d].jobId = jobId, ![d].pc = "done",
                                       ![d].resp = Processed]
       ELSE /\ req' = [req EXCEPT ![d].pc = "done", ![d].resp = Processed]
            /\ UNCHANGED <<kvStore, memoryStore, bucket, published, slackPosts, nextJob,
                           mayFail>>
  /\ UNCHANGED <<marks, processedEvents, jobs>>
  /\ UNCHANGED otherVars

(***************************************************************************)
(* SpecIngest: deliveries of one event to an event endpoint, handled       *)
(* concurrently, while time passes.                                        *)
(***************************************************************************)
MaxIngestTicks == 2

IngestHandlers == {"combined", "events"}

IngestEnvelopes == {E1}

IngestHeaders == {"valid", "stale"}

InitIngest ==
  /\ InitStoreVars /\ mayFail = MaxFaults
  /\ InitIngestVars /\ InitWorkerVars /\ InitCallbackVars

\* The clock advances by the hour, and no invocation lives that long: an hour
\* passes only between invocations.
Quiescent == \A d \in Deliveries : req[d].pc \in {"idle", "done"}

TickIngest == Quiescent /\ Tick(MaxIngestTicks)

ReceiveIngest == \E d \in Deliveries : Receive(d, IngestHandlers, IngestEnvelopes, IngestHeaders)

NextIngest ==
  \/ TickIngest
  \/ ReceiveIngest
  \/ \E d \in Deliveries : CombinedCheck(d)
  \/ \E d \in Deliveries : CombinedMark(d)
  \/ \E d \in Deliveries : CombinedProcess(d)
  \/ \E d \in Deliveries : EventsCheck(d)
  \/ \E d \in Deliveries : EventsProcess(d)

SpecIngest == InitIngest /\ [][NextIngest]_vars

(***************************************************************************)
(* Deliveries and what became of them                                      *)
(***************************************************************************)
SameEvent(d, e) == Fingerprint(req[d].env) = Fingerprint(req[e].env)

\* the idempotency check has given its final answer for d
Answered(d) == req[d].path # None /\ req[d].pc \in {"process", "done"}

NotSeen(d) == Answered(d) /\ ~req[d].seen

\* d and e were checked in the same instant
Concurrent(d, e) == req[d].checkedAt = req[e].checkedAt

\* the jobs d made known to the rest of the system
JobRecordsOf(d) == {j \in DOMAIN jobs : j = req[d].jobId}

MessagesOf(d) ==
  {i \in 1 .. Len(published) :
     IF "jobId" \in DOMAIN published[i] THEN published[i].jobId = req[d].jobId
                                        ELSE published[i].id = req[d].jobId}

\* C2 (as stated): of the concurrent deliveries of one event only one is
\* treated as not yet seen, and only one of them writes a Job Record.
C2_AsStated ==
  /\ \A d, e \in Deliveries :
       (d # e /\ SameEvent(d, e) /\ Concurrent(d, e))
         => /\ ~(NotSeen(d) /\ NotSeen(e))
            /\ ~(JobRecordsOf(d) # {} /\ JobRecordsOf(e) # {})

\* C2 (amended): of the concurrent deliveries of one event that the same store
\* answers, two are treated as not yet seen only when the durable store
\* answered both and each kv.exists ran before the other's kv.set (the
\* in-process check-and-mark admits one); a delivery answered "seen" is
\* answered duplicate_event_skipped and creates nothing; every Job Record
\* belongs to a delivery treated as not yet seen, one record at most for each.
C2_OneJobPerUnseenDelivery ==
  /\ \A d, e \in Deliveries :
       (/\ d # e /\ SameEvent(d, e) /\ Concurrent(d, e)
        /\ req[d].path = req[e].path
        /\ NotSeen(d) /\ NotSeen(e))
         => (req[d].path = "kv" /\ d \notin req[e].after /\ e \notin req[d].after)
  /\ \A d \in Deliveries :
       (req[d].pc = "done" /\ req[d].path # None /\ req[d].seen)
         => (req[d].resp = Skipped /\ req[d].jobId = None)
  /\ \A j \in DOMAIN jobs : \E d \in Deliveries : NotSeen(d) /\ req[d].jobId = j
  /\ Cardinality(DOMAIN jobs) <= Cardinality({d \in Deliveries : NotSeen(d)})

\* C2 witness: two deliveries of the event raced at the durable store, both
\* were treated as not yet seen and both wrote a Job Record.
C2_Witness ==
  \E d, e \in Deliveries :
    /\ d # e /\ SameEvent(d, e) /\ Concurrent(d, e)
    /\ req[d].path = "kv" /\ req[e].path = "kv"
    /\ NotSeen(d) /\ NotSeen(e)
    /\ JobRecordsOf(d) # {} /\ JobRecordsOf(e) # {}
    /\ JobRecordsOf(d) # JobRecordsOf(e)

\* the retention of the store that answered d's check covers time t
Retained(d, t) ==
  IF req[d].path = "events" THEN t - req[d].checkedAt <= EVENT_CACHE_EXPIRY_MS
  ELSE InWindow(req[d].path, req[d].checkedAt, t)

\* C3 (as stated): a delivery of an event that an earlier delivery has
\* recorded, made within the retention window of that record and passing the
\* request validation, is answered duplicate_event_skipped and creates no job.
C3_AsStated ==
  \A d, e \in Deliveries :
    (/\ d \in req[e].after /\ SameEvent(d, e) /\ Answered(e)
     /\ Retained(d, req[e].checkedAt))
      => (req[e].seen /\ (req[e].pc = "done" => req[e].resp = Skipped)
          /\ req[e].jobId = None)

\* C3 (amended): a delivery that passes the request validation and whose
\* idempotency check is answered by a store holding an unexpired record of
\* the event is answered duplicate_event_skipped, writes no Job Record and
\* publishes nothing.
C3_ReplaySkipped ==
  \A e \in Deliveries :
    (/\ Answered(e)
     /\ req[e].prevMark # NoTime
     /\ IF req[e].path = "events"
          THEN req[e].checkedAt - req[e].prevMark <= EVENT_CACHE_EXPIRY_MS
          ELSE InWindow(req[e].path, req[e].prevMark, req[e].checkedAt))
      => /\ req[e].seen
         /\ req[e].pc = "done"
         /\ req[e].resp = Skipped
         /\ req[e].jobId = None
         /\ JobRecordsOf(e) = {} /\ MessagesOf(e) = {}

\* C3 witness: the event was delivered, a Job Record was written, the event
\* was delivered again and skipped; there is still one Job Record.
C3_Witness ==
  \E d, e \in Deliveries :
    /\ d \in req[e].after /\ SameEvent(d, e)
    /\ req[d].handler = "combined"
    /\ JobRecordsOf(d) # {}
    /\ req[e].pc = "done" /\ req[e].resp = Skipped
    /\ Cardinality(DOMAIN jobs) = 1

(***************************************************************************)
(* The worker.  Three deployments are in the source:                       *)
(*   cloudrun/src/process.js  pull loop, streaming listener, POST /process *)
(*   the push variant         POST /pubsub                                 *)
(*   the run-once job         main()                                       *)
(* The first two share one processJob; the run-once job has its own.       *)
(***************************************************************************)
WorkerEntries == {"pull", "listener", "process", "pubsub", "main"}

Deployment(entry) ==
  IF entry = "main" THEN "job" ELSE IF entry = "pubsub" THEN "push" ELSE "service"

\* message data that is not JSON, and a message with no data
NotJson == [raw |-> "not json"]

NoData == [nodata |-> TRUE]

Truthy(data, field) == field \in DOMAIN data /\ data[field] # "" /\ data[field] # None

\* !jobData.id || !jobData.fileIds (an empty array is truthy)
ValidJobData(data) == Truthy(data, "id") /\ "fileIds" \in DOMAIN data

\* parseMessage: the job, or null for anything else
parseMessage(data) == IF ValidJobData(data) THEN "job" ELSE "null"

\* POST /pubsub with every refusal answered from the catch
PubsubVerdictCaught(data) ==
  IF "nodata" \in DOMAIN data THEN 400
  ELSE IF "raw" \in DOMAIN data THEN 500
  ELSE IF ~ValidJobData(data) THEN 500
  ELSE 200

\* POST /pubsub, up to the answer: 400 for a missing message.data and for
\* missing fields, 500 (the catch) when JSON.parse throws, else 200
PubsubVerdict(data) ==
  IF "nodata" \in DOMAIN data THEN 400
  ELSE IF "raw" \in DOMAIN data THEN 500
  ELSE IF ~ValidJobData(data) THEN 400
  ELSE 200

\* POST /process: 400 unless the body has jobId and fileIds, else 202
ProcessVerdict(body) ==
  IF Truthy(body, "jobId") /\ "fileIds" \in DOMAIN body THEN 202 ELSE 400

Field(data, field) == IF field \in DOMAIN data THEN data[field] ELSE None

\* the job object processJob is called with
JobOf(entry, data) ==
  [id |-> IF entry = "process" THEN data.jobId ELSE data.id,
   fileIds |-> data.fileIds, channel |-> Field(data, "channel"),
   ts |-> Field(data, "ts"), thread_ts |-> Field(data, "thread_ts")]

\* Pub/Sub push: a 2xx answer acknowledges the message, any other one does not
PushAcks(code) == code \in {102, 200, 201, 202, 204}

(***************************************************************************)
(* processJob, stage by stage                                              *)
(***************************************************************************)
StartsWith(text, prefix) ==
  Len(text) >= Len(prefix) /\ SubSeq(text, 1, Len(prefix)) = prefix

EndsWith(text, suffix) ==
  Len(text) >= Len(suffix)
    /\ SubSeq(text, Len(text) - Len(suffix) + 1, Len(text)) = suffix

\* /\.(mp4|mp3|wav|m4a|webm)$/i  and  /\.(mp4|mov|avi|wav|mp3|flac|ogg)$/i
MediaExtensions(deployment) ==
  IF deployment = "job" THEN {".mp4", ".mov", ".avi", ".wav", ".mp3", ".flac", ".ogg"}
  ELSE {".mp4", ".mp3", ".wav", ".m4a", ".webm"}

IsMedia(deployment, name) == \E x \in MediaExtensions(deployment) : EndsWith(name, x)

\* meetings/<yyyyMMdd_HHmm of the worker's clock>/<job id>/
JobPrefix(jobId, t) == "meetings/" \o FormattedDate(t) \o "/" \o jobId \o "/"

\* bucket.getFiles({ prefix })
getFiles(objects, prefix) == {o \in objects : StartsWith(o, prefix)}

TranscriptUrl(prefix) ==
  "https://storage.googleapis.com/bucket/" \o prefix \o "transcript.json"

NoFilesError(deployment) ==
  IF deployment = "job" THEN "No file IDs in job" ELSE "No files to process"

NoMediaError(deployment) ==
  IF deployment = "job" THEN "No media file found"
  ELSE "Media file not found in GCS bucket"

EmptyDirError == "No files found in job directory"

StorageError == "storage request failed"

FfmpegError == "ffmpeg exited with code 1"

SpeechError == "Speech recognition failed: 14 UNAVAILABLE"

\* fs is require('fs').promises, which has no statSync
StatSyncError == "fs.statSync is not a function"

\* no function of that name is defined in the file
TranscribeAudioError == "transcribeAudio is not defined"

(***************************************************************************)
(* A message reaches the worker: the entry's own validation.               *)
(***************************************************************************)
\* whether the entry acknowledges a message it could not parse: the pull
\* loop and the listener do, main() returns without
AcksInvalid(entry) == entry \in {"pull", "listener"}

\* the messages the subscription may hand out: not acknowledged and not
\* being handled
Deliverable ==
  {m \in 1 .. Len(published) :
     /\ m \notin acked
     /\ \A b \in Attempts : att[b].pc \in {"idle", "done"} \/ att[b].msg # m}

SameDeployment(entry) ==
  \A b \in Attempts : att[b].pc # "idle" => Deployment(att[b].entry) = Deployment(entry)

pipelineFrame == <<now, kvConfigured, kvStore, memoryStore, marks, lastCall, req,
                   processedEvents, jobs, published, slackPosts, nextJob,
                   callbackUrl, cb, notionPages>>

WorkerReceive(a, entries) ==
  /\ att[a].pc = "idle"
  /\ \A b \in Attempts : b < a => att[b].pc # "idle"
  /\ \E entry \in entries \ {"process"}, m \in Deliverable :
       LET data == published[m]
           r    == [IdleAttempt EXCEPT !.entry = entry, !.msg = m] IN
       /\ SameDeployment(entry)
       /\ entry = "main" => callbackUrl   \* main() exits at once without CALLBACK_URL
       /\ IF entry = "pubsub"
            THEN LET code == PubsubVerdict(data) IN
                 /\ att' = [att EXCEPT ![a] =
                      IF code = 200
                        THEN [r EXCEPT !.pc = "fetch", !.job = JobOf(entry, data),
                                       !.code = code, !.trace = <<"respond">>]
                        ELSE [r EXCEPT !.pc = "done", !.code = code,
                                       !.trace = <<"respond">>]]
                 /\ acked' = IF PushAcks(code) THEN acked \cup {m} ELSE acked
          ELSE IF parseMessage(data) = "job"
            THEN /\ att' = [att EXCEPT ![a] =
                      [r EXCEPT !.pc = "fetch", !.job = JobOf(entry, data)]]
                 /\ UNCHANGED acked
          ELSE /\ att' = [att EXCEPT ![a] =
                      [r EXCEPT !.pc = "done",
                                !.trace = IF AcksInvalid(entry) THEN <<"ack">> ELSE <<>>]]
               /\ acked' = IF AcksInvalid(entry) THEN acked \cup {m} ELSE acked
  /\ UNCHANGED <<mayFail, bucket, callbacks, transcripts>>
  /\ UNCHANGED pipelineFrame

\* POST /process
ProcessRequest(a, bodies) ==
  /\ att[a].pc = "idle"
  /\ \A b \in Attempts : b < a => att[b].pc # "idle"
  /\ SameDeployment("process")
  /\ \E body \in bodies :
       LET code == ProcessVerdict(body)
           r    == [IdleAttempt EXCEPT !.entry = "process", !.code = code,
                                       !.trace = <<"respond">>] IN
       att' = [att EXCEPT ![a] =
                 IF code = 202 THEN [r EXCEPT !.pc = "fetch", !.job = JobOf("process", body)]
                               ELSE [r EXCEPT !.pc = "done"]]
  /\ UNCHANGED <<mayFail, bucket, acked, callbacks, transcripts>>
  /\ UNCHANGED pipelineFrame

(***************************************************************************)
(* The stages of processJob.  A stage that throws leaves for the report.   *)
(***************************************************************************)
Thrown(a, stage, message) ==
  [att EXCEPT ![a].pc = "report", ![a].error = message, ![a].failedAt = stage,
              ![a].trace = Append(@, stage)]

Fetch(a) ==
  /\ att[a].pc = "fetch"
  /\ LET r      == att[a]
         dep    == Deployment(r.entry)
         prefix == JobPrefix(r.job.id, now)
         files  == getFiles(bucket, prefix)
         media  == {o \in files : IsMedia(dep, o)}
         early  == Len(r.job.fileIds) = 0 \/ (dep = "job" /\ files = {}) \/ media = {}
     IN \E listOk \in OkOrFail, dlOk \in OkOrFail :
          /\ Len(r.job.fileIds) = 0 => listOk
          /\ (early \/ ~listOk) => dlOk
          /\ Spend(~(listOk /\ dlOk))
          /\ IF Len(r.job.fileIds) = 0
               THEN att' = [att EXCEPT ![a].pc = "report", ![a].failedAt = "start",
                                       ![a].error = NoFilesError(dep)]
             ELSE IF ~listOk THEN att' = Thrown(a, "fetch", StorageError)
             ELSE IF dep = "job" /\ files = {}
               THEN att' = Thrown(a, "fetch", EmptyDirError)
             ELSE IF media = {} THEN att' = Thrown(a, "fetch", NoMediaError(dep))
             ELSE IF ~dlOk THEN att' = Thrown(a, "fetch", StorageError)
             ELSE IF dep # "job" THEN att' = Thrown(a, "fetch", StatSyncError)
             ELSE \E o \in media :
                    att' = [att EXCEPT ![a].pc = "transform", ![a].prefix = prefix,
                                       ![a].media = o, ![a].trace = Append(@, "fetch")]
  /\ UNCHANGED <<bucket, acked, callbacks, transcripts>>
  /\ UNCHANGED pipelineFrame

Transform(a) ==
  /\ att[a].pc = "transform"
  /\ LET r   == att[a]
         dep == Deployment(r.entry)
     IN \E exOk \in OkOrFail, upOk \in OkOrFail :
          /\ (~exOk \/ dep # "job") => upOk
          /\ Spend(~(exOk /\ upOk))
          /\ IF ~exOk THEN att' = Thrown(a, "transform", FfmpegError) /\ UNCHANGED bucket
             ELSE IF dep # "job"
               THEN att' = Thrown(a, "transform", StatSyncError) /\ UNCHANGED bucket
             ELSE IF ~upOk
               THEN att' = Thrown(a, "transform", StorageError) /\ UNCHANGED bucket
             ELSE /\ bucket' = bucket \cup {r.prefix \o "audio.flac"}
                  /\ att' = [att EXCEPT ![a].pc = "analyze",
                                        ![a].trace = Append(@, "transform")]
  /\ UNCHANGED <<acked, callbacks, transcripts>>
  /\ UNCHANGED pipelineFrame

Analyze(a) ==
  /\ att[a].pc = "analyze"
  /\ LET dep == Deployment(att[a].entry)
     IN \E spOk \in OkOrFail :
          /\ dep # "job" => spOk
          /\ Spend(~spOk)
          /\ att' = IF dep # "job" THEN Thrown(a, "analyze", TranscribeAudioError)
                    ELSE IF ~spOk THEN Thrown(a, "analyze", SpeechError)
                    ELSE [att EXCEPT ![a].pc = "persist",
                                     ![a].trace = Append(@, "analyze")]
  /\ UNCHANGED <<bucket, acked, callbacks, transcripts>>
  /\ UNCHANGED pipelineFrame

\* the content of transcript.json: the run-once job adds the job's
\* conversation to the metadata
TranscriptData(deployment, job, media) ==
  [jobId |-> job.id, transcript |-> "transcript of " \o media,
   metadata |-> IF deployment = "job"
                  THEN [channel |-> job.channel, ts |-> job.ts,
                        thread_ts |-> job.thread_ts]
                  ELSE NoMetadata]

Persist(a) ==
  /\ att[a].pc = "persist"
  /\ LET r   == att[a]
         dep == Deployment(r.entry)
         url == TranscriptUrl(r.prefix)
     IN \E upOk \in OkOrFail :
          /\ Spend(~upOk)
          /\ IF upOk
               THEN /\ bucket' = bucket \cup {r.prefix \o "transcript.json"}
                    /\ transcripts' = MapSet(transcripts, url,
                                             TranscriptData(dep, r.job, r.media))
                    /\ att' = [att EXCEPT ![a].pc = "report", ![a].result = url,
                                          ![a].trace = Append(@, "persist")]
               ELSE /\ att' = Thrown(a, "persist", StorageError)
                    /\ UNCHANGED <<bucket, transcripts>>
  /\ UNCHANGED <<acked, callbacks>>
  /\ UNCHANGED pipelineFrame

(***************************************************************************)
(* sendCallback: nothing is sent without CALLBACK_URL (main() does not     *)
(* run without it); a POST that fails is logged and the caller goes on.    *)
(***************************************************************************)
sendCallback(data, a, urlSet, postOk) ==
  IF urlSet THEN <<[data |-> data, by |-> a, delivered |-> postOk]>> ELSE <<>>

\* how a call of sendCallback shows in the trace
CallbackMark(sent) == IF sent = <<>> THEN <<"callback_skipped">> ELSE <<"callback">>

\* the callback processJob itself sends before it returns or throws
\* (process.js and the push variant; the run-once job's processJob sends none)
InnerCallback(r) ==
  IF r.error = None
    THEN CloudRunCallback(r.job.id, "success", r.result, None,
                          transcripts[r.result].metadata)
    ELSE CloudRunCallback(r.job.id, "failure", None, r.error, NoMetadata)

OuterCallbackSuccess(r) ==
  CloudRunCallback(r.job.id, "success", TranscriptUrl(JobPrefix(r.job.id, 0)), None,
                   NoMetadata)

\* the callback the caller of processJob sends: main(), and the then/catch
\* of POST /process
OuterCallback(r) ==
  IF r.error = None
    THEN CloudRunCallback(r.job.id, "success", r.result, None, NoMetadata)
    ELSE CloudRunCallback(r.job.id, "failure", None, r.error, NoMetadata)

\* whether the entry acknowledges the message once processJob has settled:
\* the pull loop and the listener do, in the try and in the catch, and so
\* does main(); POST /pubsub has answered before
AcksSettledNever(entry) == FALSE

AcksSettled(entry) == entry \in {"pull", "listener", "main"}

Report(a) ==
  /\ att[a].pc = "report"
  /\ LET r       == att[a]
         dep     == Deployment(r.entry)
         settled == IF r.error = None THEN <<"return">> ELSE <<"throw">>
     IN \E post1Ok \in OkOrFail, post2Ok \in OkOrFail :
          LET inner == IF dep = "job" THEN <<>>
                       ELSE sendCallback(InnerCallback(r), a, callbackUrl, post1Ok)
              outer == IF r.entry \in {"main", "process"}
                         THEN sendCallback(OuterCallback(r), a, callbackUrl, post2Ok)
                         ELSE <<>>
          IN /\ inner = <<>> => post1Ok
             /\ outer = <<>> => post2Ok
             /\ Spend(~(post1Ok /\ post2Ok))
             /\ callbacks' = callbacks \o inner \o outer
             /\ acked' = IF AcksSettled(r.entry) THEN acked \cup {r.msg} ELSE acked
             /\ att' = [att EXCEPT ![a].pc = "done",
                  ![a].trace = @ \o (IF dep = "job" THEN <<>> ELSE CallbackMark(inner))
                                 \o settled
                                 \o (IF r.entry \in {"main", "process"}
                                       THEN CallbackMark(outer) ELSE <<>>)
                                 \o (IF AcksSettled(r.entry) THEN <<"ack">> ELSE <<>>)]
  /\ UNCHANGED <<bucket, transcripts>>
  /\ UNCHANGED pipelineFrame

(***************************************************************************)
(* SpecWorker: one message on the subscription (and requests to POST       *)
(* /process), handled by one of the deployments, with redelivery of what   *)
(* is not acknowledged.                                                    *)
(***************************************************************************)
MaxWorkerTicks == 1

J1 == uuidv4(1)

\* the event's file, staged by a dispatcher at time 0
Staged == UploadResults(<<F1>>, J1, TRUE, [i \in {1} |-> TRUE], 0)

\* what the subscription holds: the message of the events handler
\* (startCloudRunJob), the message of combined-handler (publishMessage), and
\* two messages of a foreign publisher
EventsMessage == ProcessingJob(J1, Staged, E1.event, 0)

CombinedMessage == MessageData(J1, Staged, E1.event)

WorkerMessages == {EventsMessage, CombinedMessage, NotJson, NoData}

ProcessBodies ==
  {[jobId |-> J1, fileIds |-> <<"F1">>, channel |-> "C1", ts |-> "100.1",
    thread_ts |-> None],
   CombinedMessage}

\* the state a dispatcher leaves for the worker; the dispatcher's own
\* bookkeeping (requests, idempotency keys, acceptance notification) plays no
\* part in the worker and is left at its initial value
InitWorker ==
  /\ now = 0
  /\ mayFail = MaxFaults
  /\ kvConfigured = FALSE
  /\ kvStore = EmptyMap /\ memoryStore = EmptyMap /\ marks = EmptyMap
  /\ lastCall = NoCall
  /\ req = [d \in Deliveries |-> IdleRequest]
  /\ processedEvents = EmptyMap
  /\ slackPosts = <<>>
  /\ nextJob = 1
  /\ \E m \in WorkerMessages :
       /\ published = <<m>>
       /\ bucket = IF m \in {EventsMessage, CombinedMessage}
                     THEN {Staged[1].gcsPath} ELSE {}
       /\ jobs = IF m = CombinedMessage
                   THEN MapSet(EmptyMap, J1, JobRecord(J1, Staged, E1.event, 0))
                   ELSE EmptyMap
  /\ callbackUrl \in BOOLEAN
  /\ att = [a \in Attempts |-> IdleAttempt]
  /\ acked = {}
  /\ callbacks = <<>>
  /\ transcripts = EmptyMap
  /\ InitCallbackVars

WorkerQuiescent == \A a \in Attempts : att[a].pc \in {"idle", "done"}

TickWorker == WorkerQuiescent /\ Tick(MaxWorkerTicks)

NextWorker ==
  \/ TickWorker
  \/ \E a \in Attempts : WorkerReceive(a, WorkerEntries)
  \/ \E a \in Attempts : ProcessRequest(a, ProcessBodies)
  \/ \E a \in Attempts : Fetch(a)
  \/ \E a \in Attempts : Transform(a)
  \/ \E a \in Attempts : Analyze(a)
  \/ \E a \in Attempts : Persist(a)
  \/ \E a \in Attempts : Report(a)

SpecWorker == InitWorker /\ [][NextWorker]_vars

(***************************************************************************)
(* Attempts and what became of them                                        *)
(***************************************************************************)
InTrace(a, x) == \E i \in 1 .. Len(att[a].trace) : att[a].trace[i] = x

\* x shows in the trace of a, and before any y
Precedes(a, x, y) ==
  \E i \in 1 .. Len(att[a].trace) :
    /\ att[a].trace[i] = x
    /\ \A j \in 1 .. Len(att[a].trace) : att[a].trace[j] = y => i < j

\* the callbacks attempt a posted (delivered or not)
CallbacksOf(a) == {i \in 1 .. Len(callbacks) : callbacks[i].by = a}

JobStatusOf(jobId) == IF jobId \in DOMAIN jobs THEN jobs[jobId].status ELSE None

ErrorDetailsOf(jobId) ==
  IF jobId \in DOMAIN jobs /\ "errorDetails" \in DOMAIN jobs[jobId]
    THEN jobs[jobId].errorDetails ELSE ""

\* C6 (as stated): when the Analyze stage has thrown, the Persist stage was
\* not entered (no transcript artifact written or uploaded, no success
\* callback sent) and the job's record is failed with a non-empty error detail.
C6_AsStated ==
  \A a \in Attempts :
    (att[a].pc = "done" /\ att[a].failedAt = "analyze")
      => /\ ~InTrace(a, "persist")
         /\ att[a].result = None
         /\ TranscriptUrl(att[a].prefix) \notin DOMAIN transcripts
         /\ \A i \in CallbacksOf(a) : callbacks[i].data.status # "success"
         /\ JobStatusOf(att[a].job.id) = "failed"
         /\ ErrorDetailsOf(att[a].job.id) # ""

\* C7 (as stated): when processJob has thrown, at whatever stage, the job's
\* record is failed with the captured message, and a failure callback
\* carrying that message was attempted before processJob settled.
C7_AsStated ==
  \A a \in Attempts :
    (att[a].pc = "done" /\ att[a].error # None)
      => /\ JobStatusOf(att[a].job.id) = "failed"
         /\ ErrorDetailsOf(att[a].job.id) = att[a].error
         /\ Precedes(a, "callback", "throw")
         /\ \E i \in CallbacksOf(a) :
              /\ callbacks[i].data.status = "failure"
              /\ callbacks[i].data.error = att[a].error

\* C8 (as stated): every message the worker has finished with is
\* acknowledged, whether processJob returned, threw or the payload was invalid.
C8_AsStated ==
  \A a \in Attempts :
    (att[a].pc = "done" /\ att[a].msg # 0) => att[a].msg \in acked

\* C8 (amended): a message whose payload is a job is acknowledged once the
\* worker has finished with it, whether processJob returned or threw (POST
\* /pubsub has acknowledged it before processJob ran), and it is handed out
\* no second time; a message whose payload is invalid is acknowledged by the
\* pull loop and by the streaming listener, and is left to redelivery by POST
\* /pubsub (which answers 400 or 500) and by the run-once job.
C8_AckedUnlessRefused ==
  \A a \in Attempts :
    /\ (att[a].pc = "done" /\ att[a].msg # 0 /\ att[a].job.id # None)
         => att[a].msg \in acked
    /\ (att[a].entry = "pubsub" /\ att[a].job.id # None) => att[a].msg \in acked
    /\ (att[a].pc = "done" /\ att[a].msg # 0 /\ att[a].job.id = None)
         => (att[a].msg \in acked <=> att[a].entry \in {"pull", "listener"})
    /\ \A b \in Attempts :
         (a # b /\ att[a].msg # 0 /\ att[a].msg = att[b].msg)
           => (att[a].job.id = None /\ att[b].job.id = None)

\* C8 witness: processJob threw for a message of the pull loop or the
\* listener, and the message is acknowledged.
C8_Witness ==
  \E a \in Attempts :
    /\ att[a].pc = "done" /\ att[a].entry \in {"pull", "listener"}
    /\ att[a].error # None
    /\ att[a].msg \in acked

(***************************************************************************)
(* The callback endpoint (app/api/cloudrun/callback/route.ts).  The texts  *)
(* stand for the Japanese originals and have their length in UTF-16 units. *)
(***************************************************************************)
JobFailedText(error) ==
  "[x] media job error: " \o (IF error = None \/ error = "" THEN "error?" ELSE error)

ProcessingFailedText(message) == "[x] job failed: " \o message

MinutesReadyHead == "[ok] minutes are ready\n> <"

MinutesReadyTextBare(url) == MinutesReadyHead \o "|open page>"

MinutesReadyText(url) == MinutesReadyHead \o url \o "|open page>"

FetchError == "Failed to fetch transcript: 404 Not Found"

SummarizeError == "Summarization failed: 500 Internal Server Error"

NotionError == "API token is invalid."

\* summary.meetingName || the default title
DefaultTitle == "minutes"

LongTitle == "weekly-product-planning-and-engineering-sync-meeting-minutes"

\* Notion gives every page an id of its own and a URL made of title and id
PageId(n) == "0000000000000000000000000000000" \o ToString(n)

NotionUrl(title, n) == "https://www.notion.so/" \o title \o "-" \o PageId(n)

\* metadata.thread_ts || metadata.ts  (undefined when both are absent)
ThreadOfMetadata(metadata) ==
  IF metadata.thread_ts # None THEN metadata.thread_ts ELSE metadata.ts

IsFailureNever(callback) == FALSE

IsFailure(callback) == callback.status = "failure"

callbackFrame == <<now, kvConfigured, marks, lastCall, req, processedEvents, bucket,
                   jobs, published, nextJob, callbackUrl, att, acked, callbacks,
                   transcripts>>

\* a notification of the endpoint, as the step of invocation c
\* (spent: the failures this step has met before the notification)
Notify(c, channel, text, thread, spent) ==
  \E out \in IF ~kvConfigured THEN {"null"}
              ELSE IF mayFail - spent > 0 THEN {"ok", "exists_throws", "set_throws"}
              ELSE {"ok"},
     postOk \in IF mayFail - spent > 0 THEN {TRUE, FALSE} ELSE {TRUE} :
    LET s == sendSlackMessage(channel, text, thread, out, postOk,
                              kvStore, memoryStore, slackPosts, now) IN
    /\ mayFail' = mayFail - spent
                     - (IF postOk /\ out \in {"ok", "null"} THEN 0 ELSE 1)
    /\ kvStore' = s.kv
    /\ memoryStore' = s.mem
    /\ slackPosts' = s.posts

NoNotify(spent) ==
  /\ mayFail' = mayFail - spent
  /\ UNCHANGED <<kvStore, memoryStore, slackPosts>>

\* the request body is read and validated; a failure callback is answered here
CallbackReceive(c, sources) ==
  /\ cb[c].pc = "idle"
  /\ \A e \in Invocations : e < c => cb[e].pc # "idle"
  /\ \E src \in sources :
       LET callback == src.data
           r == [IdleInvocation EXCEPT !.callback = callback, !.from = src.from] IN
       IF callback.jobId = None
         THEN /\ cb' = [cb EXCEPT ![c] = [r EXCEPT !.pc = "done",
                          !.resp = Response(400, "Missing jobId in callback")]]
              /\ NoNotify(0)
       ELSE IF IsFailure(callback)
         THEN /\ cb' = [cb EXCEPT ![c] = [r EXCEPT !.pc = "done",
                          !.notified = callback.metadata.channel # None,
                          !.resp = [Response(200, "error_logged")
                                      EXCEPT !.jobId = callback.jobId]]]
              /\ IF callback.metadata.channel # None
                   THEN Notify(c, callback.metadata.channel,
                               JobFailedText(callback.error),
                               ThreadOfMetadata(callback.metadata), 0)
                   ELSE NoNotify(0)
       ELSE IF callback.transcriptUrl = None
         THEN /\ cb' = [cb EXCEPT ![c] = [r EXCEPT !.pc = "done",
                          !.resp = Response(400, "No transcript URL provided")]]
              /\ NoNotify(0)
       ELSE /\ cb' = [cb EXCEPT ![c] = [r EXCEPT !.pc = "fetch"]]
            /\ NoNotify(0)
  /\ UNCHANGED notionPages
  /\ UNCHANGED callbackFrame

\* the catch of the success path: an error notification when the callback
\* itself names a conversation, then 500
CallbackThrown(c, step, message, spent) ==
  /\ cb' = [cb EXCEPT ![c].pc = "done", ![c].steps = Append(@, step),
                      ![c].notified = cb[c].callback.metadata.channel # None,
                      ![c].resp = [Response(500, "Processing failed: " \o message)
                                     EXCEPT !.jobId = cb[c].callback.jobId]]
  /\ IF cb[c].callback.metadata.channel # None
       THEN Notify(c, cb[c].callback.metadata.channel, ProcessingFailedText(message),
                   ThreadOfMetadata(cb[c].callback.metadata), spent)
       ELSE NoNotify(spent)

\* fetch(transcriptUrl): the request may fail, and the object may not exist
CallbackFetch(c) ==
  /\ cb[c].pc = "fetch"
  /\ \E ok \in OkOrFail :
       IF ~ok THEN CallbackThrown(c, "fetch", FetchError, 1)
       ELSE IF cb[c].callback.transcriptUrl \notin DOMAIN transcripts
         THEN CallbackThrown(c, "fetch", FetchError, 0)
       ELSE /\ cb' = [cb EXCEPT ![c].pc = "summarize", ![c].steps = Append(@, "fetch")]
            /\ NoNotify(0)
  /\ UNCHANGED notionPages
  /\ UNCHANGED callbackFrame

\* POST /api/gemini/summarize: the summary names the meeting, or does not
CallbackSummarize(c, titles) ==
  /\ cb[c].pc = "summarize"
  /\ \E ok \in OkOrFail :
       IF ~ok THEN CallbackThrown(c, "summarize", SummarizeError, 1)
       ELSE \E title \in titles :
              /\ cb' = [cb EXCEPT ![c].pc = "notion", ![c].title = title,
                                  ![c].steps = Append(@, "summarize")]
              /\ NoNotify(0)
  /\ UNCHANGED notionPages
  /\ UNCHANGED callbackFrame

\* createNotionPage: notion.pages.create, a new page at every call
CallbackNotion(c) ==
  /\ cb[c].pc = "notion"
  /\ \E ok \in OkOrFail :
       IF ~ok THEN CallbackThrown(c, "notion", NotionError, 1) /\ UNCHANGED notionPages
       ELSE LET n == Len(notionPages) + 1 IN
            /\ notionPages' = Append(notionPages,
                 [id |-> PageId(n), url |-> NotionUrl(cb[c].title, n),
                  title |-> cb[c].title,
                  transcriptUrl |-> cb[c].callback.transcriptUrl])
            /\ cb' = [cb EXCEPT ![c].pc = "notify", ![c].page = n,
                                ![c].steps = Append(@, "notion")]
            /\ NoNotify(0)
  /\ UNCHANGED callbackFrame

AnswerEscalated(jobId, reached) ==
  IF reached THEN [Response(200, "success") EXCEPT !.jobId = jobId]
  ELSE [Response(500, "Processing failed: notification") EXCEPT !.jobId = jobId]

\* the answer of the success path; whether the notification reached the
\* conversation plays no part in it
AnswerAfterNotify(jobId, reached) == [Response(200, "success") EXCEPT !.jobId = jobId]

\* the completion notification, to the conversation the transcript names
CallbackNotify(c) ==
  /\ cb[c].pc = "notify"
  /\ LET metadata == transcripts[cb[c].callback.transcriptUrl].metadata
         page     == notionPages[cb[c].page]
         wanted   == metadata.channel # None /\ ThreadOfMetadata(metadata) # None
     IN /\ IF wanted
             THEN Notify(c, metadata.channel, MinutesReadyText(page.url),
                         ThreadOfMetadata(metadata), 0)
             ELSE NoNotify(0)
        /\ cb' = [cb EXCEPT ![c].pc = "done", ![c].notified = wanted,
                    ![c].posted = Len(slackPosts') > Len(slackPosts),
                    ![c].steps = IF wanted THEN Append(@, "notify") ELSE @,
                    ![c].resp = AnswerAfterNotify(cb[c].callback.jobId,
                                   Len(slackPosts') > Len(slackPosts))]
  /\ UNCHANGED notionPages
  /\ UNCHANGED callbackFrame

(***************************************************************************)
(* SpecCallback: callbacks POSTed to the endpoint, the same one more than  *)
(* once, while the transcript of job J1 is in the bucket.                  *)
(***************************************************************************)
MaxCallbackTicks == 2

\* the transcript the run-once job wrote for the job of the events handler
U1 == TranscriptUrl(JobPrefix(J1, 0))

T1 == TranscriptData("job", JobOf("main", EventsMessage), Staged[1].gcsPath)

C1Metadata == [channel |-> "C1", ts |-> "100.1", thread_ts |-> None]

\* what the workers send (success and failure without metadata, success with
\* the transcript's metadata as processJob of process.js builds it), a
\* failure callback that carries every other field as well, and two
\* malformed ones
CallbackInputs ==
  {CloudRunCallback(J1, "success", U1, None, NoMetadata),
   CloudRunCallback(J1, "success", U1, None, C1Metadata),
   CloudRunCallback(J1, "failure", None, SpeechError, NoMetadata),
   CloudRunCallback(J1, "failure", U1, SpeechError, C1Metadata),
   CloudRunCallback(J1, "success", None, None, NoMetadata),
   CloudRunCallback(None, "success", U1, None, NoMetadata)}

SummaryTitles == {DefaultTitle, LongTitle}

CallbackSources == {[data |-> x, from |-> 0] : x \in CallbackInputs}

\* the state the events handler and the run-once job leave behind for job
\* J1; their own bookkeeping plays no part in the endpoint and is left at its
\* initial value
InitCallback ==
  /\ InitStoreVars
  /\ mayFail = MaxFaults
  /\ req = [d \in Deliveries |-> IdleRequest]
  /\ processedEvents = EmptyMap
  /\ bucket = {Staged[1].gcsPath, JobPrefix(J1, 0) \o "audio.flac",
               JobPrefix(J1, 0) \o "transcript.json"}
  /\ jobs = EmptyMap
  /\ published = <<EventsMessage>>
  /\ slackPosts = <<>>
  /\ nextJob = 1
  /\ callbackUrl = TRUE
  /\ att = [a \in Attempts |-> IdleAttempt]
  /\ acked = {1}
  /\ callbacks = <<>>
  /\ transcripts = MapSet(EmptyMap, U1, T1)
  /\ InitCallbackVars

CallbackQuiescent == \A c \in Invocations : cb[c].pc \in {"idle", "done"}

TickCallback == CallbackQuiescent /\ Tick(MaxCallbackTicks)

NextCallback ==
  \/ TickCallback
  \/ \E c \in Invocations :
       CallbackReceive(c, CallbackSources)
  \/ \E c \in Invocations : CallbackFetch(c)
  \/ \E c \in Invocations : CallbackSummarize(c, SummaryTitles)
  \/ \E c \in Invocations : CallbackNotion(c)
  \/ \E c \in Invocations : CallbackNotify(c)

SpecCallback == InitCallback /\ [][NextCallback]_vars

(***************************************************************************)
(* Invocations and what became of them                                     *)
(***************************************************************************)
SameCallback(c, e) ==
  /\ cb[c].pc # "idle" /\ cb[e].pc # "idle"
  /\ cb[c].callback.jobId = cb[e].callback.jobId
  /\ cb[c].callback.transcriptUrl = cb[e].callback.transcriptUrl
  /\ cb[c].callback.status = cb[e].callback.status

\* C9 (as stated): of the invocations with the same success callback (same
\* jobId and transcriptUrl) at most one posts the completion notification.
C9_AsStated ==
  \A c, e \in Invocations :
    (c # e /\ SameCallback(c, e) /\ cb[c].callback.status = "success")
      => ~(cb[c].posted /\ cb[e].posted)

\* C10: an invocation with a failure callback, whatever else the callback
\* carries, performs no pipeline step -- no transcript fetch, no
\* summarization, no Notion page -- and every Notion page was created by an
\* invocation whose callback is not a failure.
C10_FailureRunsNoStep ==
  /\ \A c \in Invocations :
       (cb[c].pc # "idle" /\ cb[c].callback.status = "failure")
         => /\ cb[c].pc = "done"
            /\ cb[c].steps = <<>>
            /\ cb[c].page = 0
            /\ cb[c].resp.code \in {200, 400}
  /\ Len(notionPages) = Cardinality({c \in Invocations : cb[c].page # 0})

\* C10 witness: a failure callback that also carries a transcriptUrl and the
\* conversation was answered error_logged, and the error was posted.
C10_Witness ==
  \E c \in Invocations :
    /\ cb[c].callback.status = "failure"
    /\ cb[c].callback.transcriptUrl = U1
    /\ cb[c].pc = "done"
    /\ cb[c].resp.status = "error_logged"
    /\ \E i \in 1 .. Len(slackPosts) :
         slackPosts[i].text = JobFailedText(cb[c].callback.error)

(***************************************************************************)
(* Spec: the whole pipeline with every external service answering.  The    *)
(* event E1 is delivered to an event endpoint, the worker consumes what    *)
(* the dispatcher published, the callback endpoint receives what the       *)
(* worker posted.                                                          *)
(***************************************************************************)
MaxTicks == 1

Init ==
  /\ InitStoreVars
  /\ mayFail = 0
  /\ InitIngestVars
  /\ InitWorkerVars
  /\ InitCallbackVars

\* the POSTs that reached the endpoint and have not been handled yet
PendingCallbacks ==
  {i \in 1 .. Len(callbacks) :
     callbacks[i].delivered /\ \A c \in Invocations : cb[c].from # i}

TickAll == Quiescent /\ WorkerQuiescent /\ CallbackQuiescent /\ Tick(MaxTicks)

Next ==
  \/ TickAll
  \/ \E d \in Deliveries : Receive(d, IngestHandlers, {E1}, {"valid"})
  \/ \E d \in Deliveries : CombinedCheck(d)
  \/ \E d \in Deliveries : CombinedMark(d)
  \/ \E d \in Deliveries : CombinedProcess(d)
  \/ \E d \in Deliveries : EventsCheck(d)
  \/ \E d \in Deliveries : EventsProcess(d)
  \/ \E a \in Attempts : WorkerReceive(a, WorkerEntries)
  \/ \E a \in Attempts : Fetch(a)
  \/ \E a \in Attempts : Transform(a)
  \/ \E a \in Attempts : Analyze(a)
  \/ \E a \in Attempts : Persist(a)
  \/ \E a \in Attempts : Report(a)
  \/ \E c \in Invocations :
       CallbackReceive(c, {[data |-> callbacks[i].data, from |-> i] :
                             i \in PendingCallbacks})
  \/ \E c \in Invocations : CallbackFetch(c)
  \/ \E c \in Invocations : CallbackSummarize(c, {DefaultTitle})
  \/ \E c \in Invocations : CallbackNotion(c)
  \/ \E c \in Invocations : CallbackNotify(c)

Spec == Init /\ [][Next]_vars

(***************************************************************************)
(* The pipeline as a whole                                                 *)
(***************************************************************************)
\* nothing is in flight and nothing is waiting to be handled
AtRest ==
  /\ Quiescent /\ WorkerQuiescent /\ CallbackQuiescent
  /\ Deliverable = {}
  /\ PendingCallbacks = {}

ResultUrlOf(jobId) ==
  IF jobId \in DOMAIN jobs /\ "result" \in DOMAIN jobs[jobId]
    THEN jobs[jobId].result.transcriptUrl ELSE None

FourStages == <<"fetch", "transform", "analyze", "persist">>

\* the completion notifications conversation `channel` received
Completions(channel) ==
  {i \in 1 .. Len(slackPosts) :
     /\ slackPosts[i].channel = channel
     /\ StartsWith(slackPosts[i].text, MinutesReadyHead)}

\* C4 (as stated): once the pipeline has come to rest after a validly signed
\* delivery of E1 (one 2,000,000-byte video/mp4 file) with every service
\* answering, a job was created, the worker went through fetch, transform,
\* analyze and persist, the Job Record is completed with result.transcriptUrl
\* set, and conversation C1 got exactly one notification naming the document.
C4_AsStated ==
  \A d \in Deliveries :
    (AtRest /\ req[d].pc = "done" /\ NotSeen(d))
      => /\ req[d].jobId # None
         /\ \E a \in Attempts :
              /\ att[a].job.id = req[d].jobId
              /\ att[a].error = None
              /\ SelectSeq(att[a].trace, LAMBDA x : x \in {"fetch", "transform",
                                                           "analyze", "persist"})
                   = FourStages
         /\ JobStatusOf(req[d].jobId) = "completed"
         /\ ResultUrlOf(req[d].jobId) # None
         /\ Cardinality(Completions(req[d].env.event.channel)) = 1

JobStatuses ==
  <<"pending", "processing_audio", "transcribing", "summarizing", "completed">>

StatusRank(status) == CHOOSE i \in 1 .. Len(JobStatuses) : JobStatuses[i] = status

IsTerminal(status) == status \in {"completed", "failed"}

\* a write that leaves the status, or moves it along the graph
Forward(old, new) ==
  \/ old = new
  \/ /\ ~IsTerminal(old)
     /\ \/ new = "failed"
        \/ new # "failed" /\ StatusRank(old) < StatusRank(new)

\* C5: in every step a Job Record that exists keeps its status or moves it
\* forward along pending, processing_audio, transcribing, summarizing,
\* completed, or from a non-terminal status to failed -- never backward, and
\* never out of completed or failed; a record enters the store as pending.
C5_StatusMovesForward ==
  [][/\ \A j \in DOMAIN jobs :
          j \in DOMAIN jobs' /\ Forward(jobs[j].status, jobs'[j].status)
     /\ \A j \in DOMAIN jobs' \ DOMAIN jobs : jobs'[j].status = "pending"]_vars

\* C5 witness: a Job Record was written, and the worker has since finished
\* with the message published for that job.
C5_Witness ==
  \E j \in DOMAIN jobs : \E a \in Attempts :
    /\ att[a].pc = "done" /\ att[a].msg # 0
    /\ "jobId" \in DOMAIN published[att[a].msg]
    /\ published[att[a].msg].jobId = j
    /\ jobs[j].status = "pending"
    /\ AtRest

(***************************************************************************)
(* Failure callbacks, from the worker to the conversation                  *)
(***************************************************************************)
\* the callback invocation c handles was POSTed by a worker, with this status
FromWorker(c, status) ==
  /\ cb[c].from # 0
  /\ callbacks[cb[c].from].data.status = status

\* the job of the attempt whose callback invocation c handles
JobOfCallback(c) == att[callbacks[cb[c].from].by].job

\* C11 (as stated): once the endpoint has answered a failure callback that a
\* worker sent for a job, the error text is posted in the job's channel and
\* thread and the Job Record of the job is failed.
C11_AsStated ==
  \A c \in Invocations :
    (cb[c].pc = "done" /\ FromWorker(c, "failure"))
      => /\ \E i \in 1 .. Len(slackPosts) :
              /\ slackPosts[i].channel = JobOfCallback(c).channel
              /\ slackPosts[i].thread_ts = ThreadOf(JobOfCallback(c))
              /\ slackPosts[i].text = JobFailedText(cb[c].callback.error)
         /\ JobStatusOf(cb[c].callback.jobId) = "failed"


(***************************************************************************)
(* The success path of the callback endpoint                               *)
(***************************************************************************)
ReconcilerSteps == <<"fetch", "summarize", "notion", "notify">>

IsPrefix(s, t) == Len(s) <= Len(t) /\ SubSeq(t, 1, Len(s)) = s

Contains(text, part) ==
  \E i \in 1 .. Len(text) - Len(part) + 1 : SubSeq(text, i, i + Len(part) - 1) = part

\* the conversation of the job: channel and thread of the message published
\* for it
ConversationsOf(jobId) ==
  {[channel |-> published[m].channel, thread_ts |-> ThreadOf(published[m])] :
     m \in {k \in 1 .. Len(published) :
              "id" \in DOMAIN published[k] /\ published[k].id = jobId}}

IsCompletion(post) == StartsWith(post.text, MinutesReadyHead)

\* C12: an invocation takes its steps in the order fetch, summarize, Notion
\* page, notification; it answers success only with the first three done and
\* a page created; a completion notification it posted names the URL of the
\* page it created for the callback's transcript, in the conversation of the
\* job; and every completion notification names a page that exists.
C12_StepsInOrder ==
  /\ \A c \in Invocations :
       /\ IsPrefix(cb[c].steps, ReconcilerSteps)
       /\ (cb[c].pc = "done" /\ cb[c].resp.status = "success")
            => (IsPrefix(<<"fetch", "summarize", "notion">>, cb[c].steps) /\ cb[c].page # 0)
       /\ cb[c].posted
            => /\ cb[c].steps = ReconcilerSteps
               /\ cb[c].page \in 1 .. Len(notionPages)
               /\ notionPages[cb[c].page].transcriptUrl = cb[c].callback.transcriptUrl
               /\ \E i \in 1 .. Len(slackPosts) :
                    \E conv \in ConversationsOf(cb[c].callback.jobId) :
                      /\ slackPosts[i].channel = conv.channel
                      /\ slackPosts[i].thread_ts = conv.thread_ts
                      /\ IsCompletion(slackPosts[i])
                      /\ Contains(slackPosts[i].text, notionPages[cb[c].page].url)
  /\ \A i \in 1 .. Len(slackPosts) :
       IsCompletion(slackPosts[i])
         => \E n \in 1 .. Len(notionPages) :
              Contains(slackPosts[i].text, notionPages[n].url)

\* C12 witness: a success callback was reconciled, its page has the long
\* title, and the completion notification is in conversation C1.
C12_Witness ==
  \E c \in Invocations :
    /\ cb[c].pc = "done" /\ cb[c].posted
    /\ cb[c].title = LongTitle
    /\ \E i \in 1 .. Len(slackPosts) :
         /\ slackPosts[i].channel = "C1"
         /\ slackPosts[i].text = MinutesReadyText(notionPages[cb[c].page].url)


\* the step of the success path that failed in invocation c
FailedStep(c) == cb[c].steps[Len(cb[c].steps)]

\* C13 (as stated): when the transcript fetch, the summarization or the
\* Notion page creation of a success callback has failed, the invocation ran
\* no later step and did not run the failed one again, an error notification
\* is in the conversation of the job, and the Job Record of the job is failed.
C13_AsStated ==
  \A c \in Invocations :
    (cb[c].pc = "done" /\ cb[c].resp.code = 500)
      => /\ IsPrefix(cb[c].steps, ReconcilerSteps)
         /\ FailedStep(c) \in {"fetch", "summarize", "notion"}
         /\ cb[c].page = 0
         /\ \E i \in 1 .. Len(slackPosts) :
              \E conv \in ConversationsOf(cb[c].callback.jobId) :
                /\ slackPosts[i].channel = conv.channel
                /\ slackPosts[i].thread_ts = conv.thread_ts
                /\ StartsWith(slackPosts[i].text, ProcessingFailedText(""))
         /\ JobStatusOf(cb[c].callback.jobId) = "failed"


\* C14: an invocation that has created its Notion page answers success for
\* the job whether or not its completion notification reached the
\* conversation, and the page stays; a call of sendSlackMessage that fails
\* leaves the invocation to finish (it returns false, it does not throw).
C14_NotifyFailureKeepsOutcome ==
  \A c \in Invocations :
    /\ (cb[c].pc = "done" /\ cb[c].page # 0)
         => /\ cb[c].resp.code = 200
            /\ cb[c].resp.status = "success"
            /\ cb[c].resp.jobId = cb[c].callback.jobId
            /\ cb[c].page \in 1 .. Len(notionPages)
    /\ (cb[c].pc = "done" /\ cb[c].notified /\ cb[c].resp.code = 500)
         => FailedStep(c) \in {"fetch", "summarize", "notion"}

\* C14 witness: the page was created, the completion notification was
\* attempted and did not reach the conversation, and the answer is success.
C14_Witness ==
  \E c \in Invocations :
    /\ cb[c].pc = "done" /\ cb[c].page # 0
    /\ cb[c].notified /\ ~cb[c].posted
    /\ \A i \in 1 .. Len(slackPosts) : ~IsCompletion(slackPosts[i])
    /\ cb[c].resp.status = "success"


(***************************************************************************)
(* file-handler: no request validation and no idempotency check; every     *)
(* file is tested for its size and uploaded, a file that fails is reported *)
(* to the conversation, and a job is started when a file was staged.       *)
(***************************************************************************)
SizeLimitText(name) == TooLargeError \o ": " \o name

UploadFailedText(name) == "upload failed: " \o name

UploadOkText(n) == "Upload OK: " \o ToString(n) \o " files"

NoValidFiles == Response(400, "No valid files uploaded")

JobStarted(jobId) == [Response(200, "success") EXCEPT !.jobId = jobId]

\* the size test of file-handler, then uploadFileToGCS
FileResult(file, jobId, upOk, t) ==
  IF file.size > MAX_FILE_SIZE
    THEN [success |-> FALSE, file |-> file, gcsPath |-> None, error |-> TooLargeError]
    ELSE UploadResult(file, jobId, FALSE, upOk, t)

\* the message file-handler sends for a file that was not staged
ComplaintOf(result) ==
  IF result.error = TooLargeError THEN SizeLimitText(result.file.name)
                                  ELSE UploadFailedText(result.file.name)

\* the job file-handler hands to startCloudRunJob: a ProcessingJob without text
FileJob(jobId, results, event, t) ==
  [id |-> jobId, fileIds |-> FileIdsOf(results), channel |-> event.channel,
   ts |-> event.ts, thread_ts |-> event.thread_ts, user |-> event.user,
   status |-> "pending", createdAt |-> t, updatedAt |-> t]

\* sendSlackMessage, once for every text, in order
RECURSIVE NotifyEach(_, _, _, _, _, _, _, _, _)
NotifyEach(texts, channel, thread_ts, out, postOk, kv, mem, posts, t) ==
  IF texts = <<>> THEN [kv |-> kv, mem |-> mem, posts |-> posts]
  ELSE LET s == sendSlackMessage(channel, texts[1], thread_ts, out, postOk,
                                 kv, mem, posts, t)
       IN NotifyEach(Tail(texts), channel, thread_ts, out, postOk,
                     s.kv, s.mem, s.posts, t)

FileHandler(d, envs) ==
  /\ req[d].pc = "idle"
  /\ \A e \in Deliveries : e < d => req[e].pc # "idle"
  /\ \A e \in Deliveries : req[e].pc # "idle" => req[e].handler = "file"
  /\ \E env \in envs :
       \E up \in [1 .. Len(env.event.files) -> OkOrFail],
          pubOk \in OkOrFail, postOk \in OkOrFail, out \in MessageStoreOutcomes :
         LET event   == env.event
             jobId   == uuidv4(nextJob + 1)
             results == [i \in 1 .. Len(event.files) |->
                           FileResult(event.files[i], jobId, up[i], now)]
             valid   == Successful(results)
             texts   == [i \in 1 .. Len(Failed(results)) |->
                           ComplaintOf(Failed(results)[i])]
                        \o (IF valid = <<>> THEN <<>>
                                            ELSE <<UploadOkText(Len(valid))>>)
             s == NotifyEach(texts, event.channel, ThreadOf(event), out, postOk,
                             kvStore, memoryStore, slackPosts, now)
         IN /\ valid = <<>> => pubOk
            /\ texts = <<>> => (postOk /\ out \in {"ok", "null"})
            /\ Spend(~(pubOk /\ postOk /\ out \in {"ok", "null"}
                       /\ \A i \in DOMAIN up : up[i]))
            /\ nextJob' = nextJob + 1
            /\ bucket' = bucket \cup
                 {GcsPathsOf(results)[i] : i \in 1 .. Len(GcsPathsOf(results))}
            /\ published' = IF valid # <<>> /\ pubOk
                              THEN Append(published, FileJob(jobId, results, event, now))
                              ELSE published
            /\ kvStore' = s.kv
            /\ memoryStore' = s.mem
            /\ slackPosts' = s.posts
            /\ req' = [req EXCEPT ![d] =
                         [IdleRequest EXCEPT !.handler = "file", !.env = env,
                            !.jobId = jobId, !.pc = "done",
                            !.resp = IF valid = <<>> THEN NoValidFiles
                                                     ELSE JobStarted(jobId)]]
  /\ UNCHANGED <<marks, processedEvents, jobs>>
  /\ UNCHANGED otherVars

(***************************************************************************)
(* SpecStaging: an event whose only file is one byte over the limit, and   *)
(* one with a second file of 2,000,000 bytes, delivered to each handler.   *)
(***************************************************************************)
\* one byte more than CONFIG.MAX_FILE_SIZE
F2 == [id |-> "F2", name |-> "board.mov", mimetype |-> "video/quicktime",
       size |-> MAX_FILE_SIZE + 1, url_private |-> TRUE]

E2 == Envelope("event_callback", "E2", SlackEvent("message", <<F2>>))

E3 == Envelope("event_callback", "E3", SlackEvent("message", <<F1, F2>>))

StagingEnvelopes == {E2, E3}

StagingHeaders == {"valid"}

NextStaging ==
  \/ \E d \in Deliveries : Receive(d, IngestHandlers, StagingEnvelopes, StagingHeaders)
  \/ \E d \in Deliveries : CombinedCheck(d)
  \/ \E d \in Deliveries : CombinedMark(d)
  \/ \E d \in Deliveries : CombinedProcess(d)
  \/ \E d \in Deliveries : EventsCheck(d)
  \/ \E d \in Deliveries : EventsProcess(d)
  \/ \E d \in Deliveries : FileHandler(d, StagingEnvelopes)

SpecStaging == InitIngest /\ [][NextStaging]_vars


(***************************************************************************)
(* Oversized files                                                         *)
(***************************************************************************)
Oversized(file) == file.size > MAX_FILE_SIZE

\* the handler of delivery d went as far as staging the files of the event
Staging(d) == req[d].pc = "done" /\ req[d].jobId # None

\* the objects staged for file `name` of the job of delivery d
StagedFor(d, name) ==
  {o \in bucket : Contains(o, "/" \o req[d].jobId \o "/") /\ EndsWith(o, "/" \o name)}

\* C15 (as stated): a file larger than 1,073,741,824 bytes is not staged;
\* when every file of the event is that large, no Job Record is written and
\* no queue message is published for the delivery, and (with Slack and the
\* message store answering) the conversation has a size-limit message.
C15_AsStated ==
  \A d \in Deliveries :
    Staging(d) =>
      LET files == req[d].env.event.files
          big   == {i \in DOMAIN files : Oversized(files[i])} IN
      /\ \A i \in big : StagedFor(d, files[i].name) = {}
      /\ (big = DOMAIN files)
           => /\ JobRecordsOf(d) = {}
              /\ MessagesOf(d) = {}
              /\ mayFail = MaxFaults
                   => \E p \in 1 .. Len(slackPosts) :
                        /\ slackPosts[p].channel = req[d].env.event.channel
                        /\ Contains(slackPosts[p].text, TooLargeError)

(***************************************************************************)
(* The test endpoint (api/slack/test): the challenge is echoed, anything   *)
(* else is answered ok; no header is read.                                 *)
(***************************************************************************)
TestPost(d, envs) ==
  /\ req[d].pc = "idle"
  /\ \A e \in Deliveries : e < d => req[e].pc # "idle"
  /\ \A e \in Deliveries : req[e].pc # "idle" => req[e].handler = "test"
  /\ \E env \in envs :
       req' = [req EXCEPT ![d] =
                 [IdleRequest EXCEPT
                    !.handler = "test", !.env = env, !.pc = "done",
                    !.resp = IF env.type = "url_verification"
                               THEN ChallengeResponse(env)
                               ELSE Response(200, "ok")]]
  /\ UNCHANGED <<kvStore, memoryStore, marks, processedEvents, bucket, jobs,
                 published, slackPosts, nextJob, mayFail>>
  /\ UNCHANGED otherVars

(***************************************************************************)
(* SpecAdmit: event_callback and url_verification envelopes, sent with     *)
(* every kind of timestamp and signature header to the event endpoints.    *)
(***************************************************************************)
\* endpoint verification requests, with two different challenge values
V1 == [Envelope("url_verification", "", SlackEvent(None, <<>>)) EXCEPT
         !.challenge = "3eZbrw1aBm2rZgRNFdxV2595E9CY3gmdALWMmHkvFXO7tYXAYM8P"]

V2 == [V1 EXCEPT !.challenge = "challenge-1", !.body = "{url_verification,2}"]

AdmitEnvelopes == {E1, V1, V2}

AdmitHeaders == {"valid", "stale", "no_timestamp", "forged", "no_signature"}

ReceiveAdmit == \E d \in Deliveries : Receive(d, IngestHandlers, AdmitEnvelopes, AdmitHeaders)

TestAdmit == \E d \in Deliveries : TestPost(d, AdmitEnvelopes)

NextAdmit ==
  \/ ReceiveAdmit
  \/ TestAdmit
  \/ \E d \in Deliveries : CombinedCheck(d)
  \/ \E d \in Deliveries : CombinedMark(d)
  \/ \E d \in Deliveries : CombinedProcess(d)
  \/ \E d \in Deliveries : EventsCheck(d)
  \/ \E d \in Deliveries : EventsProcess(d)

SpecAdmit == InitIngest /\ [][NextAdmit]_vars

\* the request's timestamp header is missing or more than ten minutes old, or
\* its signature is not the one the signing secret gives for its timestamp
\* and body
Refused(r, t) ==
  \/ r.hdrTs = NoTime
  \/ (t \div 1000) - r.hdrTs > MAX_AGE_S
  \/ r.hdrSig # "v0=" \o Hmac(SLACK_SIGNING_SECRET,
                               "v0:" \o ToString(r.hdrTs) \o ":" \o r.env.body)

\* this step takes delivery d in at an event endpoint
Arrives(d) ==
  /\ req[d].pc = "idle" /\ req'[d].pc # "idle"
  /\ req'[d].handler \in IngestHandlers

\* this step records no key, stages nothing, writes no Job Record, publishes
\* nothing and notifies nobody
NothingChanges ==
  UNCHANGED <<kvStore, memoryStore, marks, processedEvents, bucket, jobs,
              published, slackPosts, nextJob>>

Rejected401(r) == r.pc = "done" /\ r.resp.code = 401

C17_ChallengeEchoed ==
  [][\A d \in Deliveries :
       (req[d].pc = "idle" /\ req'[d].pc # "idle"
          /\ req'[d].env.type = "url_verification")
         => /\ req'[d].pc = "done"
            /\ DOMAIN req'[d].resp = {"code", "challenge"}
            /\ req'[d].resp.code = 200
            /\ req'[d].resp.challenge = req'[d].env.challenge
            /\ NothingChanges]_vars

\* both verification requests have been answered, one of them unsigned
C17_Witness ==
  \E d, e \in Deliveries :
    /\ req[d].pc = "done" /\ req[d].env = V1 /\ req[d].hdrSig = ""
    /\ req[d].resp = [code |-> 200, challenge |-> V1.challenge]
    /\ req[e].pc = "done" /\ req[e].env = V2
    /\ req[e].resp = [code |-> 200, challenge |-> V2.challenge]

(***************************************************************************)
(* Dispatch: what a run of combined-handler that created a job published   *)
(***************************************************************************)
\* the run answered processing_job_created_and_published
Dispatched(d) ==
  /\ req[d].pc = "done" /\ req[d].handler = "combined"
  /\ req[d].resp.status = "processing_job_created_and_published"

\* the job id a queue message carries
JobIdOf(msg) == IF "jobId" \in DOMAIN msg THEN msg.jobId ELSE msg.id

NoIdPublishedTwice ==
  \A i, j \in 1 .. Len(published) :
    i # j => JobIdOf(published[i]) # JobIdOf(published[j])

Undelivered(d) ==
  /\ req[d].pc = "done" /\ req[d].handler = "combined"
  /\ req[d].jobId # None /\ MessagesOf(d) = {}

(* C19 as stated: when the queue or the artifact store is unreachable      *)
(* while a job is being dispatched, the job is surfaced as failed with     *)
(* error detail and is not left in pending.                                *)
C19_AsStated ==
  \A d \in Deliveries :
    Undelivered(d)
      => /\ JobStatusOf(req[d].jobId) = "failed"
         /\ ErrorDetailsOf(req[d].jobId) # ""

(***************************************************************************)
(* SpecLossy: the whole pipeline as in Spec, with one service call that    *)
(* may fail.                                                               *)
(***************************************************************************)
SpecLossy == InitIngest /\ [][Next]_vars

\* the acceptance notification of the job of delivery d reached its conversation
Accepted(d) ==
  \E p \in 1 .. Len(slackPosts) :
    /\ slackPosts[p].channel = req[d].env.event.channel
    /\ Contains(slackPosts[p].text, req[d].jobId)

\* the run created a job whose record could not be written, while the queue
\* and Slack answered: the message is published and the job announced
WriteLost(d) ==
  /\ Dispatched(d) /\ JobRecordsOf(d) = {}
  /\ Cardinality(MessagesOf(d)) = 1 /\ Accepted(d)

\* a worker attempt went through the four stages for this job
CompletedByWorker(jobId) ==
  \E a \in Attempts :
    /\ att[a].job.id = jobId
    /\ att[a].error = None
    /\ SelectSeq(att[a].trace, LAMBDA x : x \in {"fetch", "transform",
                                                 "analyze", "persist"})
         = FourStages

(* C20 as stated: a dispatcher run whose Job Record write failed went on   *)
(* to publish the queue message, to send the acceptance notification and   *)
(* to return its success response, and once the pipeline has come to rest  *)
(* the worker has completed the job.                                       *)
C20_AsStated ==
  \A d \in Deliveries :
    (AtRest /\ WriteLost(d))
      => /\ req[d].resp = JobCreated(req[d].jobId)
         /\ CompletedByWorker(req[d].jobId)

(***************************************************************************)
(* SpecCollide: two events dispatched by combined-handler, with uuidv4()   *)
(* drawing from two values, so that a run may draw an id already in use.   *)
(***************************************************************************)
UuidDraws == {uuidv4(1), uuidv4(2)}

CollideHandlers == {"combined"}

\* a later message of the same conversation with the same attachment
E4 == Envelope("event_callback", "E4",
               [SlackEvent("message", <<F1>>) EXCEPT !.ts = "200.2"])

CollideEnvelopes == {E1, E4}

NextCollide ==
  \/ \E d \in Deliveries : Receive(d, CollideHandlers, CollideEnvelopes, StagingHeaders)
  \/ \E d \in Deliveries : CombinedCheck(d)
  \/ \E d \in Deliveries : CombinedMark(d)
  \/ \E d \in Deliveries : CombinedProcessWith(d, UuidDraws)

SpecCollide == InitIngest /\ [][NextCollide]_vars

(* C21 as stated: creating a Job Record under an id the store already      *)
(* holds fails and leaves the existing record unchanged: no step replaces  *)
(* or removes a record that exists.                                        *)
C21_AsStated ==
  [][\A id \in DOMAIN jobs : id \in DOMAIN jobs' /\ jobs'[id] = jobs[id]]_vars

(***************************************************************************)
(* The job retry endpoint, POST /api/jobs/retry/[jobId]: the job id is the *)
(* last segment of the path, the job's fields come in the body.  The call  *)
(* of startCloudRunJob is commented out and its result replaced by true.   *)
(***************************************************************************)
RetryRequired == <<"channel", "ts", "user">>

MissingFields(jobData) ==
  SelectSeq(RetryRequired, LAMBDA f : ~Truthy(jobData, f))

retryJob(jobId, jobData, t) ==
  [id |-> jobId, fileIds |-> Field(jobData, "fileIds"), text |-> Field(jobData, "text"),
   channel |-> jobData.channel, ts |-> jobData.ts,
   thread_ts |-> Field(jobData, "thread_ts"), user |-> jobData.user,
   status |-> "pending", createdAt |-> t, updatedAt |-> t]

Restarted(jobId) == [Response(200, "restarted") EXCEPT !.jobId = jobId]

\* the bodies a caller re-supplies for a published job: all of its fields,
\* or the same without the user
RetryBodies(job) ==
  {[fileIds |-> job.fileIds, text |-> job.text, channel |-> job.channel,
    ts |-> job.ts, thread_ts |-> job.thread_ts, user |-> u] : u \in {job.user, None}}

\* the last path segment: a job id, or nothing after a trailing slash
RetryPaths(job) == {job.id, ""}

RetryPost(d) ==
  /\ req[d].pc = "idle"
  /\ \A e \in Deliveries : e < d => req[e].pc \in {"done"}
  /\ \E i \in 1 .. Len(published) :
       \E jobId \in RetryPaths(published[i]), jobData \in RetryBodies(published[i]) :
         req' = [req EXCEPT ![d] =
                   [IdleRequest EXCEPT
                      !.handler = "retry", !.pc = "done", !.jobId = jobId,
                      !.resp = IF jobId = ""
                                 THEN Response(400, "Job ID is required")
                               ELSE IF Len(MissingFields(jobData)) > 0
                                 THEN Response(400, "Missing required fields")
                               ELSE Restarted(retryJob(jobId, jobData, now).id)]]
  /\ UNCHANGED <<kvStore, memoryStore, marks, processedEvents, bucket, jobs,
                 published, slackPosts, nextJob, mayFail>>
  /\ UNCHANGED otherVars

(***************************************************************************)
(* SpecRetry: events dispatched by the events handler, and retry requests  *)
(* for the jobs it published.                                              *)
(***************************************************************************)
RetryHandlers == {"events"}

NextRetry ==
  \/ \E d \in Deliveries : Receive(d, RetryHandlers, CollideEnvelopes, StagingHeaders)
  \/ \E d \in Deliveries : EventsCheck(d)
  \/ \E d \in Deliveries : EventsProcess(d)
  \/ \E d \in Deliveries : RetryPost(d)

SpecRetry == InitIngest /\ [][NextRetry]_vars

\* this step answers a retry request for job X with success
Retried(d) ==
  /\ req[d].pc = "idle" /\ req'[d].handler = "retry"
  /\ req'[d].resp.code = 200

(* C22 as stated: a POST to the retry endpoint for job id X publishes one   *)
(* new queue message for a job whose id differs from X and whose status is *)
(* pending.                                                                *)
C22_AsStated ==
  [][\A d \in Deliveries :
       Retried(d)
         => /\ Len(published') = Len(published) + 1
            /\ JobIdOf(published'[Len(published')]) # req'[d].jobId
            /\ published'[Len(published')].status = "pending"]_vars

(* C23 as stated: when the durable store is unreachable or errors,         *)
(* isProcessedOrMark answers from the process-local map, and a key         *)
(* recorded there is reported as seen for as long as one recorded in the   *)
(* durable store: until TTL seconds after it was recorded.                 *)
C23_AsStated ==
  (lastCall.key # None /\ lastCall.path = "memory" /\ lastCall.prev # NoTime
     /\ lastCall.at < lastCall.prev + TTL * 1000)
    => lastCall.ret

\* attempt a called processJob and processJob has settled
Processed1(a) == att[a].pc = "done" /\ att[a].job.id # None

ServiceEntries == {"pull", "listener", "process", "pubsub"}

(* C24 as stated: with a callback URL configured, each processing attempt  *)
(* of the pull loop, the streaming listener, POST /process and POST        *)
(* /pubsub sends exactly one callback, success or failure.                 *)
C24_AsStated ==
  \A a \in Attempts :
    (callbackUrl /\ Processed1(a) /\ att[a].entry \in ServiceEntries)
      => Cardinality(CallbacksOf(a)) = 1

\* in this step the idempotency check of delivery d answers "seen"
AnsweredSeen(d) == ~req[d].seen /\ req'[d].seen

(* C25: a delivery whose fingerprint the idempotency check reports as seen *)
(* is answered in that very step, with duplicate_event_skipped, and the    *)
(* step uploads nothing, writes no Job Record, publishes no queue message  *)
(* and sends no notification; no delivery that was not reported as seen    *)
(* gets that answer.                                                       *)
C25_DuplicateShortCircuits ==
  [][/\ \A d \in Deliveries :
          AnsweredSeen(d)
            => /\ req'[d].pc = "done"
               /\ req'[d].resp.status = "duplicate_event_skipped"
               /\ req'[d].jobId = None
               /\ UNCHANGED <<bucket, jobs, published, slackPosts, nextJob>>
     /\ \A d \in Deliveries :
          (req'[d].pc = "done" /\ ~req'[d].seen)
            => req'[d].resp.status # "duplicate_event_skipped"]_vars

\* an event was dispatched by each kind of check and a later delivery of it
\* was skipped: one job, one message, one notification
C25_Witness ==
  \E d, e \in Deliveries :
    /\ req[d].pc = "done" /\ ~req[d].seen /\ MessagesOf(d) # {}
    /\ req[e].pc = "done" /\ req[e].seen /\ req[e].env = req[d].env
    /\ req[e].path = "kv"
    /\ Len(published) = 1 /\ Len(slackPosts) = 1 /\ Cardinality(bucket) = 1

\* the stages attempt a has entered, in the order it entered them
StagesOf(a) ==
  SelectSeq(att[a].trace, LAMBDA x : x \in {"fetch", "transform", "analyze", "persist"})

\* the stage a waiting attempt is about to enter comes right after the ones
\* it has been through
NextStageDue(a) ==
  /\ att[a].pc = "transform" => StagesOf(a) = <<"fetch">>
  /\ att[a].pc = "analyze" => StagesOf(a) = <<"fetch", "transform">>
  /\ att[a].pc = "persist" => StagesOf(a) = <<"fetch", "transform", "analyze">>

(* C26: within one job the stages are entered in the order fetch,          *)
(* transform, analyze, persist, each after the previous one completed and  *)
(* none after one that threw; the transcript that is written holds the     *)
(* recognition result, and a success callback is sent only after persist   *)
(* has uploaded the transcript it names.                                   *)
C26_StagesInFixedOrder ==
  \A a \in Attempts :
    /\ IsPrefix(StagesOf(a), FourStages)
    /\ NextStageDue(a)
    /\ att[a].error # None
         => (att[a].failedAt = "start" /\ StagesOf(a) = <<>>)
              \/ att[a].failedAt = StagesOf(a)[Len(StagesOf(a))]
    /\ \A i \in CallbacksOf(a) :
         callbacks[i].data.status = "success"
           => /\ StagesOf(a) = FourStages /\ att[a].error = None
              /\ callbacks[i].data.transcriptUrl = TranscriptUrl(att[a].prefix)
              /\ (att[a].prefix \o "transcript.json") \in bucket
              /\ (att[a].prefix \o "audio.flac") \in bucket
              /\ transcripts[callbacks[i].data.transcriptUrl].transcript
                   = "transcript of " \o att[a].media

\* a job went through the four stages, the transcript is in the bucket and
\* the success callback was posted
C26_Witness ==
  \E a \in Attempts :
    /\ att[a].pc = "done" /\ StagesOf(a) = FourStages
    /\ (att[a].prefix \o "transcript.json") \in bucket
    /\ \E i \in CallbacksOf(a) :
         callbacks[i].data.status = "success" /\ callbacks[i].delivered

\* processJob has been called for attempt a and has not settled
InProcessJob(a) == att[a].pc \in {"fetch", "transform", "analyze", "persist", "report"}

\* the attempts run in one worker process: the service (pull loop, listener
\* and POST /process share it) or the push service
SameProcess(a, b) ==
  /\ Deployment(att[a].entry) = Deployment(att[b].entry)
  /\ Deployment(att[a].entry) \in {"service", "push"}

(* C27 as stated: a worker process runs at most one processJob at a time:  *)
(* no two attempts of one process are inside processJob together.          *)
C27_AsStated ==
  \A a, b \in Attempts :
    (a # b /\ InProcessJob(a) /\ InProcessJob(b)) => ~SameProcess(a, b)

(***************************************************************************)
(* SpecMalformed: the callback endpoint and the push endpoint of the       *)
(* worker, each handed well-formed and malformed input.                    *)
(***************************************************************************)
\* a job message that names no job, and one that names no files
NoIdMessage ==
  [fileIds |-> EventsMessage.fileIds, channel |-> EventsMessage.channel,
   ts |-> EventsMessage.ts, thread_ts |-> EventsMessage.thread_ts]

NoFileIdsMessage ==
  [id |-> J1, channel |-> EventsMessage.channel, ts |-> EventsMessage.ts,
   thread_ts |-> EventsMessage.thread_ts]

PushMessages == {EventsMessage, NoData, NoIdMessage, NoFileIdsMessage}

PushEntries == {"pubsub"}

\* a success and a failure callback, and the two malformed ones
PushedCallbacks ==
  {[data |-> CloudRunCallback(J1, "success", U1, None, C1Metadata), from |-> 0],
   [data |-> CloudRunCallback(J1, "failure", None, SpeechError, C1Metadata), from |-> 0],
   [data |-> CloudRunCallback(J1, "success", None, None, C1Metadata), from |-> 0],
   [data |-> CloudRunCallback(None, "success", U1, None, C1Metadata), from |-> 0]}

PushedTitles == {DefaultTitle}

InitMalformed ==
  /\ now = 0
  /\ kvConfigured = FALSE
  /\ kvStore = EmptyMap /\ memoryStore = EmptyMap /\ marks = EmptyMap
  /\ lastCall = NoCall
  /\ mayFail = MaxFaults
  /\ req = [d \in Deliveries |-> IdleRequest]
  /\ processedEvents = EmptyMap
  /\ bucket = {Staged[1].gcsPath}
  /\ jobs = EmptyMap
  /\ \E m \in PushMessages : published = <<m>>
  /\ slackPosts = <<>>
  /\ nextJob = 1
  /\ callbackUrl = TRUE
  /\ att = [a \in Attempts |-> IdleAttempt]
  /\ acked = {}
  /\ callbacks = <<>>
  /\ transcripts = MapSet(EmptyMap, U1, T1)
  /\ InitCallbackVars

NextMalformed ==
  \/ \E a \in Attempts : WorkerReceive(a, PushEntries)
  \/ \E a \in Attempts : Fetch(a)
  \/ \E a \in Attempts : Report(a)
  \/ \E c \in Invocations : CallbackReceive(c, PushedCallbacks)
  \/ \E c \in Invocations : CallbackFetch(c)
  \/ \E c \in Invocations : CallbackSummarize(c, PushedTitles)
  \/ \E c \in Invocations : CallbackNotion(c)
  \/ \E c \in Invocations : CallbackNotify(c)

SpecMalformed == InitMalformed /\ [][NextMalformed]_vars

\* a callback without jobId, or a non-failure callback without transcriptUrl
MalformedCallback(callback) ==
  \/ callback.jobId = None
  \/ ~IsFailure(callback) /\ callback.transcriptUrl = None

\* a pushed message without message.data, id or fileIds
MalformedPush(data) ==
  \/ "nodata" \in DOMAIN data
  \/ "raw" \notin DOMAIN data /\ ~("id" \in DOMAIN data /\ "fileIds" \in DOMAIN data)

\* the step in which invocation c takes its callback
Takes(c) == cb[c].pc = "idle" /\ cb'[c].pc # "idle"

\* the step in which attempt a takes a pushed message
Pushed(a) == att[a].pc = "idle" /\ att'[a].pc # "idle" /\ att'[a].entry = "pubsub"

MaxGuardTicks == 2

\* a try block left by an exception
KvThrew(kv) == [ret |-> None, kv |-> kv, thrown |-> TRUE]

\* the try block of the durable-store-only build: exists, then set
KvOnlyTry(key, out, kv, t) ==
  IF out = "exists_throws" THEN KvThrew(kv)
  ELSE IF KvExists(kv, key, t) THEN [ret |-> TRUE, kv |-> kv, thrown |-> FALSE]
  ELSE IF out = "set_throws" THEN KvThrew(kv)
  ELSE [ret |-> FALSE, kv |-> KvSet(kv, key, t, TTL, t), thrown |-> FALSE]

\* a function without the catch: the exception leaves it
CatchRethrows(r) == r

\* catch (error) { return false; }
CatchReturnsFalse(r) ==
  IF r.thrown THEN [r EXCEPT !.ret = FALSE, !.thrown = FALSE] ELSE r

KvOnlySeenOrMark(key, out, kv, t) == CatchReturnsFalse(KvOnlyTry(key, out, kv, t))

KvOnlyOutcomes == {"ok", "exists_throws", "set_throws"}

GuardPrefixes == {"event:", "message:"}

GuardNames == {"h1"}

\* the build the calls so far belong to
KvOnlyBuild == \A pk \in DOMAIN marks : pk[1] = "kvonly"

FallbackBuild == \A pk \in DOMAIN marks : pk[1] # "kvonly"

guardFrame == <<now, mayFail, kvConfigured>>

\* a call in the build of part_010 (or, with no durable store, kv-store.ts)
GuardCall ==
  /\ FallbackBuild
  /\ \E prefix \in GuardPrefixes, name \in GuardNames, out \in KvOutcomes(kvConfigured) :
       LET key == prefix \o name
           r   == IF prefix = "event:"
                    THEN isProcessedOrMark(name, out, kvStore, memoryStore, now)
                    ELSE isMessageSentOrMark(name, out, kvStore, memoryStore, now) IN
       /\ kvStore' = r.kv
       /\ memoryStore' = r.mem
       /\ lastCall' = [key |-> key, path |-> r.path, ret |-> r.ret, at |-> now,
                       prev |-> MarkOf(marks, r.path, key), thrown |-> FALSE,
                       failed |-> (r.path = "memory" /\ out # "null"),
                       fallback |-> IF r.path # "memory" THEN "none"
                                    ELSE IF MapHas(cleanupMemoryStore(memoryStore, now), key)
                                      THEN "seen" ELSE "new"]
       /\ marks' = IF r.ret THEN marks ELSE MapSet(marks, <<r.path, key>>, now)
  /\ UNCHANGED guardFrame
  /\ UNCHANGED ingestVars
  /\ UNCHANGED workerVars
  /\ UNCHANGED callbackVars

\* a call in the build of part_011
KvOnlyCall ==
  /\ kvConfigured
  /\ KvOnlyBuild
  /\ \E prefix \in GuardPrefixes, name \in GuardNames, out \in KvOnlyOutcomes :
       LET key == prefix \o name
           r   == KvOnlySeenOrMark(key, out, kvStore, now) IN
       /\ kvStore' = r.kv
       /\ lastCall' = [key |-> key, path |-> "kvonly", ret |-> r.ret, at |-> now,
                       prev |-> MarkOf(marks, "kvonly", key), thrown |-> r.thrown,
                       failed |-> KvOnlyTry(key, out, kvStore, now).thrown,
                       fallback |-> "none"]
       /\ marks' = MapSet(marks, <<"kvonly", key>>, now)
  /\ UNCHANGED memoryStore
  /\ UNCHANGED guardFrame
  /\ UNCHANGED ingestVars
  /\ UNCHANGED workerVars
  /\ UNCHANGED callbackVars

TickGuards == Tick(MaxGuardTicks)

NextGuards == TickGuards \/ GuardCall \/ KvOnlyCall

SpecGuards == InitStore /\ [][NextGuards]_vars

(* C29: isProcessedOrMark and isMessageSentOrMark never throw: every call  *)
(* returns true or false, and a call whose store check failed while no     *)
(* fallback answered "seen" returns false (not seen).                      *)
C29_NeverThrowNotSeen ==
  lastCall.key # None
    => /\ ~lastCall.thrown
       /\ lastCall.ret \in BOOLEAN
       /\ (lastCall.failed /\ lastCall.fallback # "seen") => lastCall.ret = FALSE

\* the durable store alone failed on a key it had recorded an hour before,
\* and the call answered false
C29_Witness ==
  /\ lastCall.key # None /\ lastCall.path = "kvonly"
  /\ lastCall.failed /\ lastCall.fallback = "none"
  /\ lastCall.prev # NoTime /\ lastCall.at > lastCall.prev
  /\ KvExists(kvStore, lastCall.key, now)
  /\ lastCall.ret = FALSE /\ ~lastCall.thrown

\* attempt a has taken a queue message
TookMessage(a) == att[a].pc # "idle" /\ att[a].msg # 0

\* the worker's validation let the message of attempt a through and
\* processJob was called with its job
ReachedProcessJob(a) ==
  /\ att[a].job # NoJob
  /\ att[a].job.id # None
  /\ att[a].entry = "pubsub" => att[a].code = 200

(* C30 as stated: every queue message a dispatcher has published is        *)
(* accepted by the validation of the worker that takes it and reaches      *)
(* processJob: it carries the job id under the name the worker reads, and  *)
(* a fileIds array.                                                        *)
C30_AsStated ==
  /\ \A m \in 1 .. Len(published) : ValidJobData(published[m])
  /\ \A a \in Attempts : TookMessage(a) => ReachedProcessJob(a)

(***************************************************************************)
(* The storage prefix of a job, as the dispatcher and the worker see it    *)
(***************************************************************************)
\* the objects a dispatcher uploaded for job jobId
UploadedFor(jobId) ==
  {o \in bucket : /\ Contains(o, "/" \o jobId \o "/")
                  /\ ~EndsWith(o, "audio.flac") /\ ~EndsWith(o, "transcript.json")}

\* the step in which attempt a leaves the Fetch stage
LeavesFetch(a) == att[a].pc = "fetch" /\ att'[a].pc # "fetch"

(* C31 as stated: for every job whose media file a dispatcher staged, the  *)
(* prefix the worker's Fetch stage lists holds the staged file, however    *)
(* much time has passed since the upload.                                  *)
C31_AsStated ==
  [][\A a \in Attempts :
       (LeavesFetch(a) /\ UploadedFor(att[a].job.id) # {})
         => UploadedFor(att[a].job.id)
              \subseteq getFiles(bucket, JobPrefix(att[a].job.id, now))]_vars

\* attempt a settles in this step while attempt b of the same process is
\* inside processJob, and no service call has failed
SettlesBeside(a, b) ==
  /\ a # b /\ SameProcess(a, b)
  /\ InProcessJob(a) /\ InProcessJob(b)
  /\ att'[a].pc = "done"
  /\ mayFail' = MaxFaults

\* the namespace of the job of attempt a holds a transcript.json, each with
\* the transcript of the media of that attempt
OwnTranscriptUploaded(a) ==
  LET mine == {o \in bucket' : /\ Contains(o, "/" \o att'[a].job.id \o "/")
                               /\ EndsWith(o, "transcript.json")} IN
  /\ mine # {}
  /\ \A o \in mine :
       LET url == "https://storage.googleapis.com/bucket/" \o o IN
       /\ url \in DOMAIN transcripts'
       /\ transcripts'[url].transcript = "transcript of " \o att'[a].media

ReachedUpload(d) == req[d].handler = "combined" /\ NotSeen(d)

\* the attempt of d ended before a job was created
FailedBeforeJob(d) ==
  /\ ReachedUpload(d) /\ req[d].pc = "done"
  /\ req[d].resp = Processed
  /\ JobRecordsOf(d) = {} /\ MessagesOf(d) = {}

EventKey(d) == "event:" \o Fingerprint(req[d].env)

\* the check of e was answered, after d had recorded the fingerprint, by the
\* store that holds the record of d, unexpired
AnsweredByStoreOf(e, d) ==
  /\ req[e].handler = "combined" /\ Answered(e)
  /\ d \in req[e].after
  /\ req[e].path = req[d].path
  /\ InWindow(req[d].path, req[d].checkedAt, req[e].checkedAt)

(***************************************************************************)
(* SpecIngestMemory: combined-handler with the EventProcessor it imports,  *)
(* the in-process map of kv-store.ts.                                      *)
(***************************************************************************)
MemoryHandlers == {"combined"}

InitIngestMemory == InitIngest /\ kvConfigured = FALSE

NextIngestMemory ==
  \/ TickIngest
  \/ \E d \in Deliveries : Receive(d, MemoryHandlers, IngestEnvelopes, IngestHeaders)
  \/ \E d \in Deliveries : CombinedCheck(d)
  \/ \E d \in Deliveries : CombinedProcess(d)

SpecIngestMemory == InitIngestMemory /\ [][NextIngestMemory]_vars

\* the checks of d and e are no further apart than the map retains a record
WithinRetention(d, e) ==
  /\ req[e].checkedAt - req[d].checkedAt <= MEMORY_EXPIRY_MS
  /\ req[d].checkedAt - req[e].checkedAt <= MEMORY_EXPIRY_MS

PagesOf(jobId) ==
  {c \in Invocations : cb[c].page # 0 /\ cb[c].callback.jobId = jobId}

\* C34 (as stated): however many success callbacks arrive for one jobId, at
\* most one Notion page is created for that job.
C34_AsStated ==
  \A c \in Invocations :
    (cb[c].pc # "idle" /\ cb[c].callback.jobId # None)
      => Cardinality(PagesOf(cb[c].callback.jobId)) <= 1

(***************************************************************************)
(* SpecSend: sendSlackMessage of app/lib/utils.ts called again and again   *)
(* in one process while time passes.  utils.ts imports the memory-only     *)
(* EventProcessor of app/lib/kv-store.ts.                                  *)
(***************************************************************************)
MaxSendTicks == 2

Hundred ==
  "0123456789" \o "0123456789" \o "0123456789" \o "0123456789" \o "0123456789"
  \o "0123456789" \o "0123456789" \o "0123456789" \o "0123456789" \o "0123456789"

\* two texts that agree on their first 100 characters
SendTexts == {Hundred \o "a", Hundred \o "b"}

SendChannels == {"C1"}

SendThreads == {None, "100.1"}

\* the key as the memory store holds it
StoredKey(channel, text, thread_ts) ==
  "message:" \o messageKey(channel, text, thread_ts)

\* one call of sendSlackMessage, whole.  History: lastCall tells what the
\* call met and did (prev: when the store had recorded the key, tried: when
\* chat.postMessage had last been invoked for the key, invoked: this call
\* invoked chat.postMessage, which it did when a post arrived or the call
\* gave false); marks keeps the time of the last invocation per key.
SendCall ==
  \E channel \in SendChannels, text \in SendTexts, thread_ts \in SendThreads,
     postOk \in OkOrFail :
    LET key == StoredKey(channel, text, thread_ts)
        r == sendSlackMessage(channel, text, thread_ts, "null", postOk,
                              kvStore, memoryStore, slackPosts, now)
        invoked == Len(r.posts) > Len(slackPosts) \/ ~r.ret
    IN
    /\ kvStore' = r.kv
    /\ memoryStore' = r.mem
    /\ slackPosts' = r.posts
    /\ lastCall' = [key |-> key, ret |-> r.ret, at |-> now,
                    prev |-> IF MapHas(memoryStore, key)
                               THEN memoryStore[key] ELSE NoTime,
                    tried |-> MarkOf(marks, "post", key),
                    invoked |-> invoked,
                    posted |-> Len(r.posts) - Len(slackPosts)]
    /\ marks' = IF invoked THEN MapSet(marks, <<"post", key>>, now) ELSE marks
    /\ Spend(invoked /\ ~postOk)
    /\ UNCHANGED <<now, kvConfigured, req, processedEvents, bucket, jobs,
                   published, nextJob>>
    /\ UNCHANGED workerVars
    /\ UNCHANGED callbackVars

TickSend == Tick(MaxSendTicks)

InitSend == InitStore /\ kvConfigured = FALSE

NextSend == TickSend \/ SendCall

SpecSend == InitSend /\ [][NextSend]_vars

\* the call found the key recorded and not yet expired
FoundRecorded(call) ==
  call.prev # NoTime /\ call.at - call.prev <= MEMORY_EXPIRY_MS

\* C35: in a sequence of sendSlackMessage calls in one process,
\* chat.postMessage is invoked at most once per message key until the key
\* expires: a call invokes it only when no invocation for the key lies
\* within the retention, and then the key is on record from that instant
\* whether the post went through or not; a call that finds the key recorded
\* posts nothing and returns true.
C35_OncePerKey ==
  lastCall.key # None =>
    /\ lastCall.invoked =>
         /\ lastCall.tried = NoTime
              \/ lastCall.at - lastCall.tried > MEMORY_EXPIRY_MS
         /\ MapHas(memoryStore, lastCall.key)
         /\ memoryStore[lastCall.key] = lastCall.at
         /\ lastCall.posted <= 1
    /\ FoundRecorded(lastCall) =>
         /\ ~lastCall.invoked
         /\ lastCall.posted = 0
         /\ lastCall.ret = TRUE

\* C35 witness: a post failed, and a later identical call within the
\* retention found the key, posted nothing and returned true
C35_Witness ==
  /\ lastCall.key # None
  /\ FoundRecorded(lastCall)
  /\ lastCall.at > lastCall.prev
  /\ lastCall.tried = lastCall.prev
  /\ mayFail < MaxFaults
  /\ slackPosts = <<>>
  /\ ~lastCall.invoked /\ lastCall.ret = TRUE

(***************************************************************************)
(* combined-handler: the Job Record and the queue message of one job       *)
(***************************************************************************)
\* the queue messages published for job jobId by combined-handler
MessagesFor(jobId) ==
  {m \in 1 .. Len(published) :
     "jobId" \in DOMAIN published[m] /\ published[m].jobId = jobId}

\* the elements of a list
Elements(list) == {list[i] : i \in 1 .. Len(list)}

\* C36: a Job Record exists only for a job with at least one staged file;
\* its status is pending; its gcsPaths are exactly the objects staged for
\* the job, its fileNames the names of those files in the same order; and
\* every queue message published for the job carries the same two lists.
C36_RecordMatchesUploads ==
  \A j \in DOMAIN jobs :
    LET record == jobs[j] IN
    /\ record.jobId = j
    /\ record.status = "pending"
    /\ UploadedFor(j) # {}
    /\ Elements(record.gcsPaths) = UploadedFor(j)
    /\ Len(record.fileNames) = Len(record.gcsPaths)
    /\ \A i \in 1 .. Len(record.gcsPaths) :
         EndsWith(record.gcsPaths[i], "/" \o j \o "/" \o record.fileNames[i])
    /\ \A m \in MessagesFor(j) :
         /\ published[m].gcsPaths = record.gcsPaths
         /\ published[m].fileNames = record.fileNames

\* C36 witness: of the two files of one event one was staged and one was
\* refused; the record and the queue message of the job name that one file
C36_Witness ==
  \E j \in DOMAIN jobs :
    /\ Len(jobs[j].slackEvent.files) = 2
    /\ jobs[j].fileNames = <<F1.name>>
    /\ Len(jobs[j].gcsPaths) = 1
    /\ MessagesFor(j) # {}

(***************************************************************************)
(* events handler: which deliveries are answered duplicate_event_skipped   *)
(***************************************************************************)
\* delivery d was answered duplicate_event_skipped by the events handler
SkippedByEvents(d) ==
  req[d].handler = "events" /\ req[d].pc = "done" /\ req[d].resp = Skipped

\* C37 (as stated): the events handler answers duplicate_event_skipped only
\* for an event whose fingerprint an earlier handled delivery had recorded;
\* an event seen for the first time is not skipped, whatever headers the
\* request carries.
C37_AsStated ==
  \A d \in Deliveries :
    SkippedByEvents(d) =>
      /\ req[d].prevMark # NoTime
      /\ req[d].after # {}

=============================================================================
